---- MODULE Spec2Model ----
(***************************************************************************)
(* Payment reconciliation of the fitness booking server: the payment       *)
(* service (createPaymentIntent, confirmPayment, processRefund), the       *)
(* payments routes that call it and the Stripe webhook handler, over the   *)
(* Payment and Booking collections and the payment gateway.                *)
(*                                                                         *)
(* Every request is an async handler: it runs up to its next await, and    *)
(* other requests run while it waits.  A request slot therefore holds the  *)
(* handler's position (pc) and its local variables, and there is one       *)
(* action per awaited store or gateway call.                               *)
(***************************************************************************)
EXTENDS Integers, Sequences, FiniteSets, TLC

\* ---------------------------------------------------------------- bounds
MaxProcs == 2          \* requests in flight at once
MaxRequests == 3       \* requests the server receives in a run, overlapping
MaxSeqRequests == 4    \* requests the server receives in a run, one at a time
MaxIntents == 2        \* payment intents the gateway creates
MaxRefundCalls == 2    \* remote refund calls issued in a run
MaxClock == 2          \* readings of the wall clock

Procs == 1..MaxProcs
Users == {"u1", "u2"}
\* Booking 1 exists and belongs to u1; booking id 2 resolves to nothing.
BookingIds == {1}
BookingArgs == {1, 2}
IntentArgs == 1..MaxIntents
PaymentArgs == 1..MaxIntents

\* ---------------------------------------------------------------- state
VARIABLES
    payments,     \* the Payment collection: payment id -> document
    bookings,     \* the Booking collection: booking id -> document
    intents,      \* the gateway's payment intents: intent id -> intent
    refundCalls,  \* refunds.create calls issued, per payment intent id
    clock,        \* the wall clock read by new Date()
    req,          \* the request slots: the handler running in each
    nreq,         \* the number of requests received so far
    users,        \* the User collection: the accounts' passwords and reset tokens
    reviews,      \* the Review collection
    profiles      \* the trainers' profile.rating and profile.reviewCount

\* The state of the accounts, which the payment and booking routes leave alone.
accountVars == <<users, reviews, profiles>>

vars == <<payments, bookings, intents, refundCalls, clock, req, nreq,
          users, reviews, profiles>>

\* ------------------------------------------------------------ constants
\* Error messages thrown by the payment service.
BookingNotFound == "Booking not found"
UnauthorizedBooking == "Unauthorized access to booking"
AlreadyCompleted == "Payment already completed for this booking"
PaymentRecordNotFound == "Payment record not found"
NotSuccessful == "Payment not successful. Status: requires_payment_method"
PaymentNotFound == "Payment not found"
OnlyCompleted == "Only completed payments can be refunded"
NotAuthorizedRefund == "Not authorized to process this refund"
\* Errors that come from outside the service.
GatewayError == "gateway error"
StoreError == "store error"
WebhookError == "Webhook Error"
Received == "received"

\* Notes are free text; `at` is the timestamp a note embeds (0: none).
Note(text, at) == [text |-> text, at |-> at]
NoNote == Note("undefined", 0)

\* A document loaded into a handler: the fields a handler may assign.
NoDoc == [status |-> "none", receiptUrl |-> "none", notes |-> NoNote]

\* The object processRefund returns, which the refund route sends as its body.
NoResult == [refundId |-> 0, paymentId |-> 0, amount |-> 0, status |-> "none"]

\* A reset token that is not set (undefined), and an expiry that is not set.
NoToken == 0
NoExpire == 0

\* The reset fields of a User document loaded into a handler.
NoUser == [resetPasswordToken |-> NoToken, resetPasswordExpire |-> NoExpire]

\* A trainer's profile.rating, the quotient sum / count of the ratings, and
\* profile.reviewCount; the schema's defaults are 0 and 0.
RECURSIVE GCD(_, _)
GCD(a, b) == IF b = 0 THEN a ELSE GCD(b, a % b)

Quotient(sum, count) ==
    [sum |-> sum \div GCD(sum, count), count |-> count \div GCD(sum, count)]
NewProfile == [rating |-> Quotient(0, 1), reviewCount |-> 0]

\* iid holds the id the gateway returned: of the intent it created, or of the
\* refund.  token and password are a reset token and a new password carried
\* by an account request, user the User document it loaded; trainer is the
\* profile of the trainer document a review request loaded and stats the
\* profile it computed.
Idle ==
    [op |-> "idle", pc |-> "idle", caller |-> "none", arg |-> 0,
     etype |-> "none", sigOk |-> FALSE, receipt |-> "none", text |-> "none",
     pid |-> 0, iid |-> 0, doc |-> NoDoc, ts |-> 0,
     code |-> 0, msg |-> "none", log |-> "none", result |-> NoResult,
     token |-> NoToken, password |-> "none", user |-> NoUser,
     trainer |-> NewProfile, stats |-> NewProfile]

\* -------------------------------------------------------------- helpers
PaymentIds == 1..Len(payments)
IntentIds == 1..Len(intents)

\* Payment.findOne({ transactionId: t }): the first matching document, 0 if none.
FindByTransaction(t) ==
    IF \E i \in PaymentIds : payments[i].transactionId = t
    THEN CHOOSE i \in PaymentIds :
            /\ payments[i].transactionId = t
            /\ \A j \in PaymentIds : payments[j].transactionId = t => i <= j
    ELSE 0

\* Payment.findOne({ booking: b, status: 'completed' }) finds a document.
HasCompleted(b) ==
    \E i \in PaymentIds : payments[i].booking = b /\ payments[i].status = "completed"

\* Math.round(price * 100) on a price held in thousandths of the major unit:
\* the values the double arithmetic can give.  A product that is not half-way
\* between two integers rounds to the nearer one; a price such as 1.005 or
\* 19.995 has no exact double, and its product comes out just below or at the
\* half, so it rounds down (1.005 -> 100) or up (19.995 -> 2000).
ToMinorUnits(price) ==
    IF price % 10 = 5
    THEN {price \div 10, price \div 10 + 1}
    ELSE {(price + 5) \div 10}

\* The class price of a booking, in thousandths of the major unit, as
\* populate('class', 'price') reads it.
PriceOf(b) == bookings[b].price

Loaded(i) ==
    [status |-> payments[i].status, receiptUrl |-> payments[i].receiptUrl,
     notes |-> payments[i].notes]

\* document.save(): only the paths whose assigned value differs from the
\* loaded one are written.
SaveDoc(i, loaded, new) ==
    [payments EXCEPT ![i] =
        [@ EXCEPT !.status = IF new.status # loaded.status THEN new.status ELSE @,
                  !.receiptUrl = IF new.receiptUrl # loaded.receiptUrl
                                 THEN new.receiptUrl ELSE @,
                  !.notes = IF new.notes # loaded.notes THEN new.notes ELSE @]]

Busy(p) == req[p].pc \notin {"idle", "done"}

\* The handler of slot p ends with an HTTP response; the slot keeps the request
\* line (and a webhook's event, a reset's token and the document a
\* cleanup loaded), the response and the last line logged.
Respond(p, code, msg, log) ==
    req' = [req EXCEPT ![p] =
        [Idle EXCEPT !.op = req[p].op, !.pc = "done", !.arg = req[p].arg,
                     !.etype = req[p].etype, !.sigOk = req[p].sigOk,
                     !.text = IF req[p].op = "webhook" THEN req[p].text ELSE "none",
                     !.token = req[p].token, !.user = req[p].user,
                     !.code = code, !.msg = msg, !.log = log]]

\* The server receives a request and starts its handler in a free slot.
Accept(p) ==
    /\ ~Busy(p)
    /\ nreq' = nreq + 1

Goto(p, pc) == req' = [req EXCEPT ![p].pc = pc]

\* bcrypt.hash(password, salt) with the salt of bcrypt.genSalt.
Hash(password, salt) == [of |-> password, salt |-> salt]

\* The accounts: the clients u1 and u2 and the trainers t1 and t2, each with
\* the password it registered with and no reset token.
AccountIds == {"u1", "u2", "t1", "t2"}
NewUser == [password |-> Hash("registered", 0), resetPasswordToken |-> NoToken,
            resetPasswordExpire |-> NoExpire]

InitAccounts ==
    /\ users = [a \in AccountIds |-> NewUser]
    /\ reviews = <<>>
    /\ profiles = [t \in {"t1", "t2"} |-> NewProfile]

\* A Booking as POST /api/bookings saves it: the schema's defaults, and the
\* price of its class (49.99).
NewBooking(u) ==
    [user |-> u, status |-> "pending", paymentStatus |-> "unpaid", price |-> 49990]

Init ==
    /\ payments = <<>>
    /\ bookings = [b \in BookingIds |-> NewBooking("u1")]
    /\ intents = <<>>
    /\ refundCalls = [i \in IntentArgs |-> 0]
    /\ clock = 1
    /\ req = [p \in Procs |-> Idle]
    /\ nreq = 0
    /\ InitAccounts

\* ------------------------------------------- POST /api/payments/create-intent
StartCreateIntent(p, u, b, m) ==
    /\ Accept(p)
    /\ req' = [req EXCEPT ![p] =
            [Idle EXCEPT !.op = "createIntent", !.pc = "ci_findBooking",
                         !.caller = u, !.arg = b, !.text = m]]
    /\ UNCHANGED <<payments, bookings, intents, refundCalls, clock, accountVars>>

\* Booking.findById(bookingId), then the existence and ownership checks.
CiFindBooking(p) ==
    /\ req[p].pc = "ci_findBooking"
    /\ \/ Respond(p, 500, StoreError, "error")
       \/ /\ req[p].arg \notin DOMAIN bookings
          /\ Respond(p, 500, BookingNotFound, "error")
       \/ /\ req[p].arg \in DOMAIN bookings
          /\ bookings[req[p].arg].user # req[p].caller
          /\ Respond(p, 500, UnauthorizedBooking, "error")
       \/ /\ req[p].arg \in DOMAIN bookings
          /\ bookings[req[p].arg].user = req[p].caller
          /\ Goto(p, "ci_findCompleted")
    /\ UNCHANGED <<payments, bookings, intents, refundCalls, clock, nreq, accountVars>>

\* CiFindCompleted without the duplicate check.
CiFindCompleted_NoCheck(p) ==
    /\ req[p].pc = "ci_findCompleted"
    /\ \/ Respond(p, 500, StoreError, "error")
       \/ Goto(p, "ci_stripeCreate")
    /\ UNCHANGED <<payments, bookings, intents, refundCalls, clock, nreq, accountVars>>

\* CiFindCompleted that turns the request down when the booking has a Payment
\* of any status.
CiFindCompleted_AnyPayment(p) ==
    /\ req[p].pc = "ci_findCompleted"
    /\ \/ Respond(p, 500, StoreError, "error")
       \/ /\ \E i \in PaymentIds : payments[i].booking = req[p].arg
          /\ Respond(p, 500, AlreadyCompleted, "error")
       \/ /\ \A i \in PaymentIds : payments[i].booking # req[p].arg
          /\ Goto(p, "ci_stripeCreate")
    /\ UNCHANGED <<payments, bookings, intents, refundCalls, clock, nreq, accountVars>>

\* Payment.findOne({ booking, status: 'completed' }) and the duplicate check.
CiFindCompleted(p) ==
    /\ req[p].pc = "ci_findCompleted"
    /\ \/ Respond(p, 500, StoreError, "error")
       \/ /\ HasCompleted(req[p].arg)
          /\ Respond(p, 500, AlreadyCompleted, "error")
       \/ /\ ~HasCompleted(req[p].arg)
          /\ Goto(p, "ci_stripeCreate")
    /\ UNCHANGED <<payments, bookings, intents, refundCalls, clock, nreq, accountVars>>

\* CiStripeCreate with the gateway's failure swallowed: the handler goes on
\* to save a row with no intent id.
CiStripeCreate_Swallow(p) ==
    /\ req[p].pc = "ci_stripeCreate"
    /\ \/ /\ Goto(p, "ci_save")
          /\ UNCHANGED intents
       \/ /\ Len(intents) < MaxIntents
          /\ \E a \in ToMinorUnits(PriceOf(req[p].arg)) :
                intents' = Append(intents,
                    [status |-> "requires_payment_method", receipt |-> "none",
                     amount |-> a, refunded |-> FALSE])
          /\ req' = [req EXCEPT ![p].pc = "ci_save", ![p].iid = Len(intents) + 1]
    /\ UNCHANGED <<payments, bookings, refundCalls, clock, nreq, accountVars>>

\* CiStripeCreate that truncates the amount instead of rounding it.
CiStripeCreate_Truncates(p) ==
    /\ req[p].pc = "ci_stripeCreate"
    /\ \/ /\ Respond(p, 500, GatewayError, "error")
          /\ UNCHANGED intents
       \/ /\ Len(intents) < MaxIntents
          /\ intents' = Append(intents,
                [status |-> "requires_payment_method", receipt |-> "none",
                 amount |-> PriceOf(req[p].arg) \div 10, refunded |-> FALSE])
          /\ req' = [req EXCEPT ![p].pc = "ci_save", ![p].iid = Len(intents) + 1]
    /\ UNCHANGED <<payments, bookings, refundCalls, clock, nreq, accountVars>>

\* stripe.paymentIntents.create({ amount: Math.round(price * 100), ... }).
CiStripeCreate(p) ==
    /\ req[p].pc = "ci_stripeCreate"
    /\ \/ /\ Respond(p, 500, GatewayError, "error")
          /\ UNCHANGED intents
       \/ /\ Len(intents) < MaxIntents
          /\ \E a \in ToMinorUnits(PriceOf(req[p].arg)) :
                intents' = Append(intents,
                    [status |-> "requires_payment_method", receipt |-> "none",
                     amount |-> a, refunded |-> FALSE])
          /\ req' = [req EXCEPT ![p].pc = "ci_save", ![p].iid = Len(intents) + 1]
    /\ UNCHANGED <<payments, bookings, refundCalls, clock, nreq, accountVars>>

\* CiSave that reuses the booking's first Payment, when it has one, for the
\* new intent instead of inserting a row.
CiSave_ReusesRow(p) ==
    /\ req[p].pc = "ci_save"
    /\ \/ /\ Respond(p, 500, StoreError, "error")
          /\ UNCHANGED payments
       \/ /\ payments' =
                IF \E i \in PaymentIds : payments[i].booking = req[p].arg
                THEN [payments EXCEPT
                        ![CHOOSE i \in PaymentIds :
                            /\ payments[i].booking = req[p].arg
                            /\ \A j \in PaymentIds :
                                  payments[j].booking = req[p].arg => i <= j] =
                            [@ EXCEPT !.transactionId = req[p].iid,
                                      !.status = "pending"]]
                ELSE Append(payments,
                        [user |-> req[p].caller, booking |-> req[p].arg,
                         amount |-> PriceOf(req[p].arg),
                         paymentMethod |-> req[p].text,
                         transactionId |-> req[p].iid, status |-> "pending",
                         receiptUrl |-> "undefined", notes |-> NoNote])
          /\ Respond(p, 200, "ok", "none")
    /\ UNCHANGED <<bookings, intents, refundCalls, clock, nreq, accountVars>>

\* new Payment({ ..., status: 'pending' }).save()
CiSave(p) ==
    /\ req[p].pc = "ci_save"
    /\ \/ /\ Respond(p, 500, StoreError, "error")
          /\ UNCHANGED payments
       \/ /\ payments' = Append(payments,
                [user |-> req[p].caller, booking |-> req[p].arg,
                 amount |-> PriceOf(req[p].arg), paymentMethod |-> req[p].text,
                 transactionId |-> req[p].iid, status |-> "pending",
                 receiptUrl |-> "undefined", notes |-> NoNote])
          /\ Respond(p, 200, "ok", "none")
    /\ UNCHANGED <<bookings, intents, refundCalls, clock, nreq, accountVars>>

createPaymentIntent(p) ==
    \/ CiFindBooking(p)
    \/ CiFindCompleted(p)
    \/ CiStripeCreate(p)
    \/ CiSave(p)

\* ----------------------------------------------------- the payment gateway
\* ForeignIntent is an intent of the gateway account that this server did
\* not create: the webhook endpoint receives the account's events for it, and
\* a client may name it in a confirm call.
ForeignIntent == 0

\* The receipt URL of the charge of intent i: present for odd intents, absent
\* (charges?.data[0]?.receipt_url is undefined) for even ones.
ReceiptOf(i) == IF i % 2 = 1 THEN "url" ELSE "null"

\* The client holds the client secret of intent i: create-intent returns it
\* once the Payment is saved.
HasSecret(i) == i \in IntentIds /\ FindByTransaction(i) # 0

\* The customer pays the intent out of band: the intent succeeds.
GatewayPay(i) ==
    /\ HasSecret(i)
    /\ intents[i].status = "requires_payment_method"
    /\ intents' = [intents EXCEPT ![i].status = "succeeded",
                                  ![i].receipt = ReceiptOf(i)]
    /\ UNCHANGED <<payments, bookings, refundCalls, clock, req, nreq, accountVars>>


\* A refund issued at the gateway itself (its dashboard), outside this server.
GatewayRefund(i) ==
    /\ i \in IntentIds
    /\ intents[i].status = "succeeded"
    /\ ~intents[i].refunded
    /\ intents' = [intents EXCEPT ![i].refunded = TRUE]
    /\ UNCHANGED <<payments, bookings, refundCalls, clock, req, nreq, accountVars>>

\* ------------------------------------------------ POST /api/payments/confirm
StartConfirm(p, u, i) ==
    /\ Accept(p)
    /\ req' = [req EXCEPT ![p] =
            [Idle EXCEPT !.op = "confirm", !.pc = "cf_retrieve",
                         !.caller = u, !.arg = i]]
    /\ UNCHANGED <<payments, bookings, intents, refundCalls, clock, accountVars>>

\* CfRetrieve without the check that the intent has succeeded.
CfRetrieve_NoStatusCheck(p) ==
    /\ req[p].pc = "cf_retrieve"
    /\ \/ Respond(p, 500, GatewayError, "error")
       \/ /\ req[p].arg \in IntentIds
          /\ req' = [req EXCEPT ![p].pc = "cf_findPayment",
                                ![p].receipt = intents[req[p].arg].receipt]
       \/ /\ req[p].arg = ForeignIntent
          /\ req' = [req EXCEPT ![p].pc = "cf_findPayment",
                                ![p].receipt = "null"]
    /\ UNCHANGED <<payments, bookings, intents, refundCalls, clock, nreq, accountVars>>

\* stripe.paymentIntents.retrieve(paymentIntentId) and the status check.
CfRetrieve(p) ==
    /\ req[p].pc = "cf_retrieve"
    /\ \/ Respond(p, 500, GatewayError, "error")
       \/ /\ req[p].arg \in IntentIds
          /\ intents[req[p].arg].status # "succeeded"
          /\ Respond(p, 500, NotSuccessful, "error")
       \/ /\ req[p].arg \in IntentIds
          /\ intents[req[p].arg].status = "succeeded"
          /\ req' = [req EXCEPT ![p].pc = "cf_findPayment",
                                ![p].receipt = intents[req[p].arg].receipt]
       \/ /\ req[p].arg = ForeignIntent
          /\ \/ Respond(p, 500, NotSuccessful, "error")
             \/ req' = [req EXCEPT ![p].pc = "cf_findPayment",
                                   ![p].receipt = "null"]
    /\ UNCHANGED <<payments, bookings, intents, refundCalls, clock, nreq, accountVars>>

\* CfFindPayment that turns down a caller who is not the Payment's user.
CfFindPayment_OwnerOnly(p) ==
    /\ req[p].pc = "cf_findPayment"
    /\ \/ Respond(p, 500, StoreError, "error")
       \/ /\ FindByTransaction(req[p].arg) = 0
          /\ Respond(p, 500, PaymentRecordNotFound, "error")
       \/ /\ FindByTransaction(req[p].arg) # 0
          /\ payments[FindByTransaction(req[p].arg)].user # req[p].caller
          /\ Respond(p, 500, NotAuthorizedRefund, "error")
       \/ /\ FindByTransaction(req[p].arg) # 0
          /\ payments[FindByTransaction(req[p].arg)].user = req[p].caller
          /\ req' = [req EXCEPT ![p].pc = "cf_savePayment",
                                ![p].pid = FindByTransaction(req[p].arg),
                                ![p].doc = Loaded(FindByTransaction(req[p].arg))]
    /\ UNCHANGED <<payments, bookings, intents, refundCalls, clock, nreq, accountVars>>

\* Payment.findOne({ transactionId }); then status and receiptUrl are assigned.
CfFindPayment(p) ==
    /\ req[p].pc = "cf_findPayment"
    /\ \/ Respond(p, 500, StoreError, "error")
       \/ /\ FindByTransaction(req[p].arg) = 0
          /\ Respond(p, 500, PaymentRecordNotFound, "error")
       \/ /\ FindByTransaction(req[p].arg) # 0
          /\ req' = [req EXCEPT ![p].pc = "cf_savePayment",
                                ![p].pid = FindByTransaction(req[p].arg),
                                ![p].doc = Loaded(FindByTransaction(req[p].arg))]
    /\ UNCHANGED <<payments, bookings, intents, refundCalls, clock, nreq, accountVars>>

\* payment.save() with status = 'completed' and the receipt URL.
CfSavePayment(p) ==
    /\ req[p].pc = "cf_savePayment"
    /\ \/ /\ Respond(p, 500, StoreError, "error")
          /\ UNCHANGED payments
       \/ /\ payments' = SaveDoc(req[p].pid, req[p].doc,
                [req[p].doc EXCEPT !.status = "completed",
                                   !.receiptUrl = req[p].receipt])
          /\ Goto(p, "cf_updateBooking")
    /\ UNCHANGED <<bookings, intents, refundCalls, clock, nreq, accountVars>>

\* CfUpdateBooking that marks the Booking paid and leaves its status alone.
CfUpdateBooking_PaidOnly(p) ==
    /\ req[p].pc = "cf_updateBooking"
    /\ \/ /\ Respond(p, 500, StoreError, "error")
          /\ UNCHANGED bookings
       \/ /\ bookings' = [bookings EXCEPT
                ![payments[req[p].pid].booking].paymentStatus = "paid"]
          /\ Goto(p, "cf_populate")
    /\ UNCHANGED <<payments, intents, refundCalls, clock, nreq, accountVars>>

\* Booking.findByIdAndUpdate(payment.booking, { paymentStatus: 'paid', status: 'confirmed' })
CfUpdateBooking(p) ==
    /\ req[p].pc = "cf_updateBooking"
    /\ \/ /\ Respond(p, 500, StoreError, "error")
          /\ UNCHANGED bookings
       \/ /\ bookings' = [bookings EXCEPT
                ![payments[req[p].pid].booking] =
                    [@ EXCEPT !.paymentStatus = "paid", !.status = "confirmed"]]
          /\ Goto(p, "cf_populate")
    /\ UNCHANGED <<payments, intents, refundCalls, clock, nreq, accountVars>>

\* Payment.findById(payment._id).populate(...), then the payment is returned.
CfPopulate(p) ==
    /\ req[p].pc = "cf_populate"
    /\ \/ Respond(p, 500, StoreError, "error")
       \/ Respond(p, 200, "ok", "none")
    /\ UNCHANGED <<payments, bookings, intents, refundCalls, clock, nreq, accountVars>>

confirmPayment(p) ==
    \/ CfRetrieve(p)
    \/ CfFindPayment(p)
    \/ CfSavePayment(p)
    \/ CfUpdateBooking(p)
    \/ CfPopulate(p)

\* ------------------------------------------------- POST /api/payments/refund
RECURSIVE SumCalls(_)
SumCalls(n) == IF n = 0 THEN 0 ELSE refundCalls[n] + SumCalls(n - 1)

TotalRefundCalls == SumCalls(MaxIntents)

RefundsInFlight ==
    Cardinality({q \in Procs : req[q].op = "refund" /\ Busy(q)})

StartRefund(p, u, i, r) ==
    /\ Accept(p)
    /\ TotalRefundCalls + RefundsInFlight < MaxRefundCalls
    /\ req' = [req EXCEPT ![p] =
            [Idle EXCEPT !.op = "refund", !.pc = "rf_routeFind",
                         !.caller = u, !.arg = i, !.text = r]]
    /\ UNCHANGED <<payments, bookings, intents, refundCalls, clock, accountVars>>

\* RfRouteFind without the ownership check.
RfRouteFind_NoOwnerCheck(p) ==
    /\ req[p].pc = "rf_routeFind"
    /\ \/ Respond(p, 500, StoreError, "error")
       \/ /\ req[p].arg \notin PaymentIds
          /\ Respond(p, 404, PaymentNotFound, "none")
       \/ /\ req[p].arg \in PaymentIds
          /\ Goto(p, "rf_find")
    /\ UNCHANGED <<payments, bookings, intents, refundCalls, clock, nreq, accountVars>>

\* The route's Payment.findById(paymentId) and its ownership check.
RfRouteFind(p) ==
    /\ req[p].pc = "rf_routeFind"
    /\ \/ Respond(p, 500, StoreError, "error")
       \/ /\ req[p].arg \notin PaymentIds
          /\ Respond(p, 404, PaymentNotFound, "none")
       \/ /\ req[p].arg \in PaymentIds
          /\ payments[req[p].arg].user # req[p].caller
          /\ Respond(p, 401, NotAuthorizedRefund, "none")
       \/ /\ req[p].arg \in PaymentIds
          /\ payments[req[p].arg].user = req[p].caller
          /\ Goto(p, "rf_find")
    /\ UNCHANGED <<payments, bookings, intents, refundCalls, clock, nreq, accountVars>>

\* RfFind without the check that the status is 'completed'.
RfFind_NoStatusCheck(p) ==
    /\ req[p].pc = "rf_find"
    /\ \/ Respond(p, 500, StoreError, "error")
       \/ /\ req[p].arg \notin PaymentIds
          /\ Respond(p, 500, PaymentNotFound, "error")
       \/ /\ req[p].arg \in PaymentIds
          /\ req' = [req EXCEPT ![p].pc = "rf_stripeRefund",
                                ![p].pid = req[p].arg,
                                ![p].doc = Loaded(req[p].arg)]
    /\ UNCHANGED <<payments, bookings, intents, refundCalls, clock, nreq, accountVars>>

\* RfFind whose status check lets a refunded Payment through as well.
RfFind_AllowsRefunded(p) ==
    /\ req[p].pc = "rf_find"
    /\ \/ Respond(p, 500, StoreError, "error")
       \/ /\ req[p].arg \notin PaymentIds
          /\ Respond(p, 500, PaymentNotFound, "error")
       \/ /\ req[p].arg \in PaymentIds
          /\ payments[req[p].arg].status \notin {"completed", "refunded"}
          /\ Respond(p, 500, OnlyCompleted, "error")
       \/ /\ req[p].arg \in PaymentIds
          /\ payments[req[p].arg].status \in {"completed", "refunded"}
          /\ req' = [req EXCEPT ![p].pc = "rf_stripeRefund",
                                ![p].pid = req[p].arg,
                                ![p].doc = Loaded(req[p].arg)]
    /\ UNCHANGED <<payments, bookings, intents, refundCalls, clock, nreq, accountVars>>

\* processRefund's Payment.findById(paymentId) and its status check.
RfFind(p) ==
    /\ req[p].pc = "rf_find"
    /\ \/ Respond(p, 500, StoreError, "error")
       \/ /\ req[p].arg \notin PaymentIds
          /\ Respond(p, 500, PaymentNotFound, "error")
       \/ /\ req[p].arg \in PaymentIds
          /\ payments[req[p].arg].status # "completed"
          /\ Respond(p, 500, OnlyCompleted, "error")
       \/ /\ req[p].arg \in PaymentIds
          /\ payments[req[p].arg].status = "completed"
          /\ req' = [req EXCEPT ![p].pc = "rf_stripeRefund",
                                ![p].pid = req[p].arg,
                                ![p].doc = Loaded(req[p].arg)]
    /\ UNCHANGED <<payments, bookings, intents, refundCalls, clock, nreq, accountVars>>

\* RfStripeRefund with the gateway's failure swallowed: the handler goes on
\* to its writes.
RfStripeRefund_Swallow(p) ==
    /\ req[p].pc = "rf_stripeRefund"
    /\ LET t == payments[req[p].pid].transactionId IN
       /\ refundCalls' = [refundCalls EXCEPT ![t] = @ + 1]
       /\ \/ /\ Goto(p, "rf_savePayment")
             /\ UNCHANGED intents
          \/ /\ intents[t].status = "succeeded"
             /\ ~intents[t].refunded
             /\ intents' = [intents EXCEPT ![t].refunded = TRUE]
             /\ req' = [req EXCEPT ![p].pc = "rf_savePayment",
                                   ![p].iid = TotalRefundCalls + 1]
    /\ UNCHANGED <<payments, bookings, clock, nreq, accountVars>>

\* stripe.refunds.create({ payment_intent: payment.transactionId, ... })
RfStripeRefund(p) ==
    /\ req[p].pc = "rf_stripeRefund"
    /\ LET t == payments[req[p].pid].transactionId IN
       /\ refundCalls' = [refundCalls EXCEPT ![t] = @ + 1]
       /\ \/ /\ Respond(p, 500, GatewayError, "error")
             /\ UNCHANGED intents
          \/ /\ intents[t].status = "succeeded"
             /\ ~intents[t].refunded
             /\ intents' = [intents EXCEPT ![t].refunded = TRUE]
             /\ req' = [req EXCEPT ![p].pc = "rf_savePayment",
                                   ![p].iid = TotalRefundCalls + 1]
    /\ UNCHANGED <<payments, bookings, clock, nreq, accountVars>>

\* RfSavePayment that writes the default note whatever the reason.
RfSavePayment_IgnoresReason(p) ==
    /\ req[p].pc = "rf_savePayment"
    /\ \/ /\ Respond(p, 500, StoreError, "error")
          /\ UNCHANGED payments
       \/ /\ payments' = SaveDoc(req[p].pid, req[p].doc,
                [req[p].doc EXCEPT !.status = "refunded",
                                   !.notes = Note("Refund processed", 0)])
          /\ Goto(p, "rf_updateBooking")
    /\ UNCHANGED <<bookings, intents, refundCalls, clock, nreq, accountVars>>

\* payment.save() with status = 'refunded' and notes = reason || 'Refund processed'
RfSavePayment(p) ==
    /\ req[p].pc = "rf_savePayment"
    /\ \/ /\ Respond(p, 500, StoreError, "error")
          /\ UNCHANGED payments
       \/ /\ payments' = SaveDoc(req[p].pid, req[p].doc,
                [req[p].doc EXCEPT
                    !.status = "refunded",
                    !.notes = IF req[p].text = "none"
                              THEN Note("Refund processed", 0)
                              ELSE Note(req[p].text, 0)])
          /\ Goto(p, "rf_updateBooking")
    /\ UNCHANGED <<bookings, intents, refundCalls, clock, nreq, accountVars>>

\* Booking.findByIdAndUpdate(payment.booking, { paymentStatus: 'refunded' })
RfUpdateBooking(p) ==
    /\ req[p].pc = "rf_updateBooking"
    /\ \/ /\ Respond(p, 500, StoreError, "error")
          /\ UNCHANGED bookings
       \/ /\ bookings' = [bookings EXCEPT
                ![payments[req[p].pid].booking].paymentStatus = "refunded"]
          /\ req' = [req EXCEPT ![p] =
                [Idle EXCEPT !.op = req[p].op, !.pc = "done", !.arg = req[p].arg,
                             !.code = 200, !.msg = "refunded",
                             !.result = [refundId |-> req[p].iid,
                                         paymentId |-> req[p].pid,
                                         amount |-> payments[req[p].pid].amount,
                                         status |-> "refunded"]]]
    /\ UNCHANGED <<payments, intents, refundCalls, clock, nreq, accountVars>>

processRefund(p) ==
    \/ RfRouteFind(p)
    \/ RfFind(p)
    \/ RfStripeRefund(p)
    \/ RfSavePayment(p)
    \/ RfUpdateBooking(p)

\* --------------------------------------------------- POST /api/webhook/stripe
EventTypes ==
    {"payment_intent.succeeded", "payment_intent.payment_failed",
     "charge.refunded", "customer.created"}

\* The events the gateway signs: those that report what happened to an intent.
\* It may deliver each of them late, out of order and more than once.  A payment
\* attempt may fail on an intent before it succeeds, so a payment_failed event
\* may arrive for every intent the client can pay, whatever its status by then.
Signed(t, i, r, m) ==
    /\ i \in IntentIds \cup {ForeignIntent}
    /\ t = "payment_intent.succeeded" =>
            /\ m = "none"
            /\ IF i = ForeignIntent THEN r = "null"
               ELSE intents[i].status = "succeeded" /\ r = intents[i].receipt
    /\ t = "payment_intent.payment_failed" =>
            r = "none" /\ (IF i = ForeignIntent THEN TRUE ELSE HasSecret(i))
    /\ t = "charge.refunded" =>
            /\ r = "none" /\ m = "none"
            /\ IF i = ForeignIntent THEN TRUE ELSE intents[i].refunded
    /\ t = "customer.created" => r = "none" /\ m = "none" /\ i = ForeignIntent

StartWebhook(p, ok, t, i, r, m) ==
    /\ Accept(p)
    /\ ok => Signed(t, i, r, m)
    /\ ~ok => r = "none" /\ m = "none" /\ i # ForeignIntent
    /\ req' = [req EXCEPT ![p] =
            [Idle EXCEPT !.op = "webhook", !.pc = "wh_verify", !.arg = i,
                         !.etype = t, !.sigOk = ok, !.receipt = r, !.text = m]]
    /\ UNCHANGED <<payments, bookings, intents, refundCalls, clock, accountVars>>

\* WhVerify with the event parsed but its signature not checked.
WhVerify_NoSignature(p) ==
    /\ req[p].pc = "wh_verify"
    /\ \/ /\ req[p].etype = "customer.created"
          /\ Respond(p, 200, Received, "unhandled")
       \/ /\ req[p].etype # "customer.created"
          /\ Goto(p, "wh_find")
    /\ UNCHANGED <<payments, bookings, intents, refundCalls, clock, nreq, accountVars>>

\* stripe.webhooks.constructEvent(body, signature, secret), then the switch.
WhVerify(p) ==
    /\ req[p].pc = "wh_verify"
    /\ \/ /\ ~req[p].sigOk
          /\ Respond(p, 400, WebhookError, "verification failed")
       \/ /\ req[p].sigOk
          /\ req[p].etype = "customer.created"
          /\ Respond(p, 200, Received, "unhandled")
       \/ /\ req[p].sigOk
          /\ req[p].etype # "customer.created"
          /\ Goto(p, "wh_find")
    /\ UNCHANGED <<payments, bookings, intents, refundCalls, clock, nreq, accountVars>>

\* WhFind that answers a missing Payment with an error.
WhFind_MissingIsError(p) ==
    /\ req[p].pc = "wh_find"
    /\ \/ /\ Respond(p, 200, Received, "error")
          /\ UNCHANGED clock
       \/ /\ FindByTransaction(req[p].arg) = 0
          /\ Respond(p, 500, PaymentRecordNotFound, "not found")
          /\ UNCHANGED clock
       \/ /\ FindByTransaction(req[p].arg) # 0
          /\ \E now \in clock..MaxClock :
                /\ req[p].etype # "charge.refunded" => now = clock
                /\ clock' = now
                /\ req' = [req EXCEPT
                        ![p].pc = "wh_save",
                        ![p].pid = FindByTransaction(req[p].arg),
                        ![p].doc = Loaded(FindByTransaction(req[p].arg)),
                        ![p].ts = IF req[p].etype = "charge.refunded"
                                  THEN now ELSE 0]
    /\ UNCHANGED <<payments, bookings, intents, refundCalls, nreq, accountVars>>

\* Payment.findOne({ transactionId }) of the case; the fields are assigned,
\* a refund note taking the time of new Date().
WhFind(p) ==
    /\ req[p].pc = "wh_find"
    /\ \/ /\ Respond(p, 200, Received, "error")
          /\ UNCHANGED clock
       \/ /\ FindByTransaction(req[p].arg) = 0
          /\ Respond(p, 200, Received, "not found")
          /\ UNCHANGED clock
       \/ /\ FindByTransaction(req[p].arg) # 0
          /\ \E now \in clock..MaxClock :
                /\ req[p].etype # "charge.refunded" => now = clock
                /\ clock' = now
                /\ req' = [req EXCEPT
                        ![p].pc = "wh_save",
                        ![p].pid = FindByTransaction(req[p].arg),
                        ![p].doc = Loaded(FindByTransaction(req[p].arg)),
                        ![p].ts = IF req[p].etype = "charge.refunded"
                                  THEN now ELSE 0]
    /\ UNCHANGED <<payments, bookings, intents, refundCalls, nreq, accountVars>>

\* The document each case saves.
WhAssigned(p) ==
    CASE req[p].etype = "payment_intent.succeeded" ->
            [req[p].doc EXCEPT !.status = "completed",
                               !.receiptUrl = req[p].receipt]
      [] req[p].etype = "payment_intent.payment_failed" ->
            [req[p].doc EXCEPT
                !.status = "failed",
                !.notes = IF req[p].text = "none"
                          THEN Note("Payment failed", 0)
                          ELSE Note(req[p].text, 0)]
      [] OTHER ->
            [req[p].doc EXCEPT !.status = "refunded",
                               !.notes = Note("Refunded via Stripe on", req[p].ts)]

\* WhSave outside a try/catch: a failure of the save reaches the client.
WhSave_Uncaught(p) ==
    /\ req[p].pc = "wh_save"
    /\ \/ /\ Respond(p, 500, StoreError, "error")
          /\ UNCHANGED payments
       \/ /\ payments' = SaveDoc(req[p].pid, req[p].doc, WhAssigned(p))
          /\ IF req[p].etype = "payment_intent.payment_failed"
             THEN Respond(p, 200, Received, "marked")
             ELSE Goto(p, "wh_updateBooking")
    /\ UNCHANGED <<bookings, intents, refundCalls, clock, nreq, accountVars>>

\* WhSave whose payment_failed case goes on to update the Booking.
WhSave_FailedMarksBooking(p) ==
    /\ req[p].pc = "wh_save"
    /\ \/ /\ Respond(p, 200, Received, "error")
          /\ UNCHANGED payments
       \/ /\ payments' = SaveDoc(req[p].pid, req[p].doc, WhAssigned(p))
          /\ Goto(p, "wh_updateBooking")
    /\ UNCHANGED <<bookings, intents, refundCalls, clock, nreq, accountVars>>

\* payment.save() of the case.
WhSave(p) ==
    /\ req[p].pc = "wh_save"
    /\ \/ /\ Respond(p, 200, Received, "error")
          /\ UNCHANGED payments
       \/ /\ payments' = SaveDoc(req[p].pid, req[p].doc, WhAssigned(p))
          /\ IF req[p].etype = "payment_intent.payment_failed"
             THEN Respond(p, 200, Received, "marked")
             ELSE Goto(p, "wh_updateBooking")
    /\ UNCHANGED <<bookings, intents, refundCalls, clock, nreq, accountVars>>

\* WhUpdateBooking that confirms the Booking as the direct confirm path does.
WhUpdateBooking_Confirms(p) ==
    /\ req[p].pc = "wh_updateBooking"
    /\ \/ /\ Respond(p, 200, Received, "error")
          /\ UNCHANGED bookings
       \/ /\ bookings' = [bookings EXCEPT
                ![payments[req[p].pid].booking] =
                    IF req[p].etype = "payment_intent.succeeded"
                    THEN [@ EXCEPT !.paymentStatus = "paid", !.status = "confirmed"]
                    ELSE [@ EXCEPT !.paymentStatus = "refunded"]]
          /\ Respond(p, 200, Received, "marked")
    /\ UNCHANGED <<payments, intents, refundCalls, clock, nreq, accountVars>>

\* Booking.findByIdAndUpdate(payment.booking, { paymentStatus }) of the
\* succeeded and refunded cases.
WhUpdateBooking(p) ==
    /\ req[p].pc = "wh_updateBooking"
    /\ \/ /\ Respond(p, 200, Received, "error")
          /\ UNCHANGED bookings
       \/ /\ bookings' = [bookings EXCEPT
                ![payments[req[p].pid].booking].paymentStatus =
                    IF req[p].etype = "payment_intent.succeeded"
                    THEN "paid" ELSE "refunded"]
          /\ Respond(p, 200, Received, "marked")
    /\ UNCHANGED <<payments, intents, refundCalls, clock, nreq, accountVars>>

stripeWebhookHandler(p) ==
    \/ WhVerify(p)
    \/ WhFind(p)
    \/ WhSave(p)
    \/ WhUpdateBooking(p)

\* ------------------------------------------------------------ the system
Methods == {"card"}
Reasons == {"none", "customer request"}
FailureMessages == {"none", "Your card was declined."}
Receipts == {"none", "null", "url"}

\* The requests a client or the gateway may send.
CreateIntentRequest(p) ==
    \E u \in Users, b \in BookingArgs, m \in Methods : StartCreateIntent(p, u, b, m)

ConfirmRequest(p) ==
    \E u \in Users, i \in IntentArgs \cup {ForeignIntent} : StartConfirm(p, u, i)

RefundRequest(p) ==
    \E u \in Users, i \in PaymentArgs, r \in Reasons : StartRefund(p, u, i, r)

WebhookRequest(p) ==
    \E ok \in BOOLEAN, t \in EventTypes, i \in IntentArgs \cup {ForeignIntent},
       r \in Receipts, m \in FailureMessages : StartWebhook(p, ok, t, i, r, m)

Gateway ==
    \E i \in IntentArgs : GatewayPay(i) \/ GatewayRefund(i)

\* Requests arrive at any time: their handlers overlap.
Admit(p) == nreq < MaxRequests

\* Requests arrive one after the other: a handler ends before the next starts.
SeqAdmit(p) ==
    /\ nreq < MaxSeqRequests
    /\ \A q \in Procs : ~Busy(q)
    /\ p = (nreq % MaxProcs) + 1

Next ==
    \/ \E p \in Procs : Admit(p) /\ CreateIntentRequest(p)
    \/ \E p \in Procs : Admit(p) /\ ConfirmRequest(p)
    \/ \E p \in Procs : Admit(p) /\ RefundRequest(p)
    \/ \E p \in Procs : Admit(p) /\ WebhookRequest(p)
    \/ \E p \in Procs : createPaymentIntent(p)
    \/ \E p \in Procs : confirmPayment(p)
    \/ \E p \in Procs : processRefund(p)
    \/ \E p \in Procs : stripeWebhookHandler(p)
    \/ Gateway

Spec == Init /\ [][Next]_vars

SeqNext ==
    \/ \E p \in Procs : SeqAdmit(p) /\ CreateIntentRequest(p)
    \/ \E p \in Procs : SeqAdmit(p) /\ ConfirmRequest(p)
    \/ \E p \in Procs : SeqAdmit(p) /\ RefundRequest(p)
    \/ \E p \in Procs : SeqAdmit(p) /\ WebhookRequest(p)
    \/ \E p \in Procs : createPaymentIntent(p)
    \/ \E p \in Procs : confirmPayment(p)
    \/ \E p \in Procs : processRefund(p)
    \/ \E p \in Procs : stripeWebhookHandler(p)
    \/ Gateway

SeqSpec == Init /\ [][SeqNext]_vars

\* ------------------------------------------------------ the bookings routes
MaxBookings == 2       \* bookings in the collection

\* Trainer t1 gives every class; t2 is another trainer.
Trainers == {"t1", "t2"}
TrainerOf(b) == "t1"

\* Class 1 is active, class 2 is not, class id 3 resolves to nothing.
ClassArgs == {1, 2, 3}

ClassNotFound == "Class not found"
ClassNotAvailable == "This class is not currently available for booking"
NotAuthorizedBooking == "Not authorized to update this booking"
AlreadyCancelled == "This booking is already cancelled"
AlreadyStatus(status) == "This booking is already " \o status
TrainerRequired == "Access denied. Trainer role required."
ValidationErrors == "errors"
ServerError == "Server error"

\* booking.save(): of the paths a booking route assigns, status is written
\* when its value differs from the loaded one.
SaveBooking(b, loaded, status) ==
    [bookings EXCEPT ![b].status = IF status # loaded THEN status ELSE @]

\* POST /api/bookings
StartCreateBooking(p, u, c) ==
    /\ Accept(p)
    /\ Len(bookings) < MaxBookings
    /\ req' = [req EXCEPT ![p] =
            [Idle EXCEPT !.op = "createBooking", !.pc = "bk_findClass",
                         !.caller = u, !.arg = c]]
    /\ UNCHANGED <<payments, bookings, intents, refundCalls, clock, accountVars>>

\* Class.findById(classId), then the existence and isActive checks.
BkFindClass(p) ==
    /\ req[p].pc = "bk_findClass"
    /\ \/ Respond(p, 500, ServerError, "error")
       \/ /\ req[p].arg = 3
          /\ Respond(p, 404, ClassNotFound, "none")
       \/ /\ req[p].arg = 2
          /\ Respond(p, 400, ClassNotAvailable, "none")
       \/ /\ req[p].arg = 1
          /\ Goto(p, "bk_save")
    /\ UNCHANGED <<payments, bookings, intents, refundCalls, clock, nreq, accountVars>>

\* new Booking({ user, class, trainer, ... }).save(), then the populate.
BkSave(p) ==
    /\ req[p].pc = "bk_save"
    /\ \/ /\ Respond(p, 500, ServerError, "error")
          /\ UNCHANGED bookings
       \/ /\ Len(bookings) < MaxBookings
          /\ bookings' = Append(bookings, NewBooking(req[p].caller))
          /\ \/ Respond(p, 201, "ok", "none")
             \/ Respond(p, 500, ServerError, "error")
    /\ UNCHANGED <<payments, intents, refundCalls, clock, nreq, accountVars>>

\* PUT /api/bookings/:id: the client cancels; status must be 'cancelled'.
StartClientCancel(p, u, b, status) ==
    /\ Accept(p)
    /\ IF status # "cancelled"
       THEN Respond(p, 400, ValidationErrors, "none")
       ELSE req' = [req EXCEPT ![p] =
               [Idle EXCEPT !.op = "clientCancel", !.pc = "bc_find",
                            !.caller = u, !.arg = b, !.text = status]]
    /\ UNCHANGED <<payments, bookings, intents, refundCalls, clock, accountVars>>

\* Booking.findById(id), then the existence, ownership and status checks.
BcFind(p) ==
    /\ req[p].pc = "bc_find"
    /\ \/ Respond(p, 500, ServerError, "error")
       \/ /\ req[p].arg \notin DOMAIN bookings
          /\ Respond(p, 404, BookingNotFound, "none")
       \/ /\ req[p].arg \in DOMAIN bookings
          /\ bookings[req[p].arg].user # req[p].caller
          /\ Respond(p, 401, NotAuthorizedBooking, "none")
       \/ /\ req[p].arg \in DOMAIN bookings
          /\ bookings[req[p].arg].user = req[p].caller
          /\ bookings[req[p].arg].status = "cancelled"
          /\ Respond(p, 400, AlreadyCancelled, "none")
       \/ /\ req[p].arg \in DOMAIN bookings
          /\ bookings[req[p].arg].user = req[p].caller
          /\ bookings[req[p].arg].status # "cancelled"
          /\ req' = [req EXCEPT ![p].pc = "bc_save",
                                ![p].doc.status = bookings[req[p].arg].status]
    /\ UNCHANGED <<payments, bookings, intents, refundCalls, clock, nreq, accountVars>>

\* BcSave that also marks the booking's payment as refunded.
BcSave_MarksRefunded(p) ==
    /\ req[p].pc = "bc_save"
    /\ \/ /\ Respond(p, 500, ServerError, "error")
          /\ UNCHANGED bookings
       \/ /\ bookings' = [bookings EXCEPT
                ![req[p].arg] = [@ EXCEPT !.status = "cancelled",
                                          !.paymentStatus = "refunded"]]
          /\ Respond(p, 200, "ok", "none")
    /\ UNCHANGED <<payments, intents, refundCalls, clock, nreq, accountVars>>

\* booking.status = 'cancelled'; booking.save()
BcSave(p) ==
    /\ req[p].pc = "bc_save"
    /\ \/ /\ Respond(p, 500, ServerError, "error")
          /\ UNCHANGED bookings
       \/ /\ bookings' = SaveBooking(req[p].arg, req[p].doc.status, "cancelled")
          /\ Respond(p, 200, "ok", "none")
    /\ UNCHANGED <<payments, intents, refundCalls, clock, nreq, accountVars>>

\* PUT /api/bookings/trainer/:id: the trainer accepts or declines; the caller
\* must be a trainer and status one of 'confirmed' and 'cancelled'.
StartTrainerUpdate(p, u, b, status) ==
    /\ Accept(p)
    /\ IF u \notin Trainers
       THEN Respond(p, 403, TrainerRequired, "none")
       ELSE IF status \notin {"confirmed", "cancelled"}
       THEN Respond(p, 400, ValidationErrors, "none")
       ELSE req' = [req EXCEPT ![p] =
               [Idle EXCEPT !.op = "trainerUpdate", !.pc = "bt_find",
                            !.caller = u, !.arg = b, !.text = status]]
    /\ UNCHANGED <<payments, bookings, intents, refundCalls, clock, accountVars>>

\* Booking.findById(id), then the existence, trainer and pending checks.
BtFind(p) ==
    /\ req[p].pc = "bt_find"
    /\ \/ Respond(p, 500, ServerError, "error")
       \/ /\ req[p].arg \notin DOMAIN bookings
          /\ Respond(p, 404, BookingNotFound, "none")
       \/ /\ req[p].arg \in DOMAIN bookings
          /\ TrainerOf(req[p].arg) # req[p].caller
          /\ Respond(p, 401, NotAuthorizedBooking, "none")
       \/ /\ req[p].arg \in DOMAIN bookings
          /\ TrainerOf(req[p].arg) = req[p].caller
          /\ bookings[req[p].arg].status # "pending"
          /\ Respond(p, 400, AlreadyStatus(bookings[req[p].arg].status), "none")
       \/ /\ req[p].arg \in DOMAIN bookings
          /\ TrainerOf(req[p].arg) = req[p].caller
          /\ bookings[req[p].arg].status = "pending"
          /\ req' = [req EXCEPT ![p].pc = "bt_save",
                                ![p].doc.status = bookings[req[p].arg].status]
    /\ UNCHANGED <<payments, bookings, intents, refundCalls, clock, nreq, accountVars>>

\* booking.status = req.body.status; booking.save()
BtSave(p) ==
    /\ req[p].pc = "bt_save"
    /\ \/ /\ Respond(p, 500, ServerError, "error")
          /\ UNCHANGED bookings
       \/ /\ bookings' = SaveBooking(req[p].arg, req[p].doc.status, req[p].text)
          /\ Respond(p, 200, "ok", "none")
    /\ UNCHANGED <<payments, intents, refundCalls, clock, nreq, accountVars>>

bookingsRouter(p) ==
    \/ BkFindClass(p)
    \/ BkSave(p)
    \/ BcFind(p)
    \/ BcSave(p)
    \/ BtFind(p)
    \/ BtSave(p)

CreateBookingRequest(p) ==
    \E u \in Users, c \in ClassArgs : StartCreateBooking(p, u, c)

ClientCancelRequest(p) ==
    \E u \in Users, b \in BookingArgs, s \in {"cancelled", "confirmed"} :
        StartClientCancel(p, u, b, s)

TrainerUpdateRequest(p) ==
    \E u \in Trainers \cup {"u1"}, b \in BookingArgs,
       s \in {"confirmed", "cancelled", "pending"} : StartTrainerUpdate(p, u, b, s)

\* The payment requests and the booking requests, arriving at any time.
BookingNext ==
    \/ \E p \in Procs : Admit(p) /\ CreateBookingRequest(p)
    \/ \E p \in Procs : Admit(p) /\ ClientCancelRequest(p)
    \/ \E p \in Procs : Admit(p) /\ TrainerUpdateRequest(p)
    \/ \E p \in Procs : bookingsRouter(p)
    \/ Next

BookingSpec == Init /\ [][BookingNext]_vars

\* ------------------------------------------------------- create-intent alone
\* Class prices: 49.99, and prices with a third decimal, two of them half-way
\* between two amounts in minor units.
Prices == {49990, 49996, 19995, 1005}

PriceInit ==
    /\ payments = <<>>
    /\ \E x \in Prices :
          bookings = [b \in BookingIds |-> [NewBooking("u1") EXCEPT !.price = x]]
    /\ intents = <<>>
    /\ refundCalls = [i \in IntentArgs |-> 0]
    /\ clock = 1
    /\ req = [p \in Procs |-> Idle]
    /\ nreq = 0
    /\ InitAccounts

\* create-intent requests, arriving at any time, over a class of any price.
PriceNext ==
    \/ \E p \in Procs : Admit(p) /\ CreateIntentRequest(p)
    \/ \E p \in Procs : createPaymentIntent(p)

PriceSpec == PriceInit /\ [][PriceNext]_vars

\* ------------------------------------------------- the owner's requests
MaxRaceRequests == 5   \* requests the booking's owner sends in a run

RaceAdmit(p) == nreq < MaxRaceRequests

\* The owner of booking 1 sends create-intent, confirm and refund requests
\* for it at any time, from several tabs or with retries: they overlap.
RaceNext ==
    \/ \E p \in Procs, b \in BookingIds, m \in Methods :
          RaceAdmit(p) /\ StartCreateIntent(p, bookings[b].user, b, m)
    \/ \E p \in Procs, i \in IntentArgs :
          RaceAdmit(p) /\ StartConfirm(p, bookings[1].user, i)
    \/ \E p \in Procs, i \in PaymentArgs, r \in Reasons :
          RaceAdmit(p) /\ StartRefund(p, bookings[1].user, i, r)
    \/ \E p \in Procs : createPaymentIntent(p)
    \/ \E p \in Procs : confirmPayment(p)
    \/ \E p \in Procs : processRefund(p)
    \/ \E i \in IntentArgs : GatewayPay(i)

RaceSpec == Init /\ [][RaceNext]_vars

\* The owner's requests and the gateway's webhooks, one after the other.
RaceSeqAdmit(p) ==
    /\ nreq < MaxRaceRequests
    /\ \A q \in Procs : ~Busy(q)
    /\ p = (nreq % MaxProcs) + 1

RaceSeqNext ==
    \/ \E p \in Procs, b \in BookingIds, m \in Methods :
          RaceSeqAdmit(p) /\ StartCreateIntent(p, bookings[b].user, b, m)
    \/ \E p \in Procs, i \in IntentArgs :
          RaceSeqAdmit(p) /\ StartConfirm(p, bookings[1].user, i)
    \/ \E p \in Procs, i \in PaymentArgs, r \in Reasons :
          RaceSeqAdmit(p) /\ StartRefund(p, bookings[1].user, i, r)
    \/ \E p \in Procs : RaceSeqAdmit(p) /\ WebhookRequest(p)
    \/ \E p \in Procs : createPaymentIntent(p)
    \/ \E p \in Procs : confirmPayment(p)
    \/ \E p \in Procs : processRefund(p)
    \/ \E p \in Procs : stripeWebhookHandler(p)
    \/ \E i \in IntentArgs : GatewayPay(i)

RaceSeqSpec == Init /\ [][RaceSeqNext]_vars

\* ------------------------------------------------------- the account routes
MaxAuthRequests == 4   \* account requests the server receives in a run

\* The lifetime of a reset token, 3600000 ms, in readings of the clock.
TokenTTL == 1

\* u1 has an account; nobody@x is a well-formed address without one.
EmailArgs == {"u1", "nobody@x", "not an address"}
IsEmail(e) == e # "not an address"

\* New passwords, one of them shorter than 8 characters.
PasswordArgs == {"correct horse", "short"}
MinLength(pw) == pw # "short"

\* The salts bcrypt.genSalt(10) draws.
Salts == {1}

UserNotFound == "User not found"
ResetEmailSent == "Password reset email sent"
InvalidOrExpired == "Invalid or expired token"
PasswordUpdated == "Password updated successfully"

\* User.findOne({ resetPasswordToken, resetPasswordExpire: { $gt: Date.now() } })
FindByResetToken(t) ==
    {a \in AccountIds : /\ users[a].resetPasswordToken = t
                        /\ users[a].resetPasswordExpire > clock}

\* Time passes.
Tick ==
    /\ clock < MaxClock
    /\ clock' = clock + 1
    /\ UNCHANGED <<payments, bookings, intents, refundCalls, req, nreq, accountVars>>

\* POST /api/auth/forgot-password: the email must be well formed.  The token
\* crypto.randomBytes draws is new: it is the number of the request.
StartForgotPassword(p, e) ==
    /\ Accept(p)
    /\ IF ~IsEmail(e)
       THEN Respond(p, 400, ValidationErrors, "none")
       ELSE req' = [req EXCEPT ![p] =
               [Idle EXCEPT !.op = "forgotPassword", !.pc = "fp_find",
                            !.caller = e, !.token = nreq + 1]]
    /\ UNCHANGED <<payments, bookings, intents, refundCalls, clock, accountVars>>

\* User.findOne({ email }), then the existence check and the new token with
\* its expiry, assigned to the document.
FpFind(p) ==
    /\ req[p].pc = "fp_find"
    /\ \/ Goto(p, "fp_cleanupFind")
       \/ /\ req[p].caller \notin AccountIds
          /\ Respond(p, 404, UserNotFound, "none")
       \/ /\ req[p].caller \in AccountIds
          /\ req' = [req EXCEPT ![p].pc = "fp_save",
                                ![p].ts = clock + TokenTTL]
    /\ UNCHANGED <<payments, bookings, intents, refundCalls, clock, nreq, accountVars>>

\* user.save() with the token and the expiry
FpSave(p) ==
    /\ req[p].pc = "fp_save"
    /\ \/ /\ Goto(p, "fp_cleanupFind")
          /\ UNCHANGED users
       \/ /\ users' = [users EXCEPT
                ![req[p].caller].resetPasswordToken = req[p].token,
                ![req[p].caller].resetPasswordExpire = req[p].ts]
          /\ Goto(p, "fp_sendEmail")
    /\ UNCHANGED <<payments, bookings, intents, refundCalls, clock, nreq,
                   reviews, profiles>>

\* sendEmail({ email, subject, message })
FpSendEmail(p) ==
    /\ req[p].pc = "fp_sendEmail"
    /\ \/ Goto(p, "fp_cleanupFind")
       \/ Respond(p, 200, ResetEmailSent, "none")
    /\ UNCHANGED <<payments, bookings, intents, refundCalls, clock, nreq, accountVars>>

\* The catch block: User.findOne({ email }) again, inside its own try.
FpCleanupFind(p) ==
    /\ req[p].pc = "fp_cleanupFind"
    /\ \/ Respond(p, 500, ServerError, "cleanup error")
       \/ /\ req[p].caller \notin AccountIds
          /\ Respond(p, 500, ServerError, "error")
       \/ /\ req[p].caller \in AccountIds
          /\ req' = [req EXCEPT
                ![p].pc = "fp_cleanupSave",
                ![p].user = [resetPasswordToken |->
                                 users[req[p].caller].resetPasswordToken,
                             resetPasswordExpire |->
                                 users[req[p].caller].resetPasswordExpire]]
    /\ UNCHANGED <<payments, bookings, intents, refundCalls, clock, nreq, accountVars>>

\* FpCleanupSave that answers without clearing the token.
FpCleanupSave_KeepsToken(p) ==
    /\ req[p].pc = "fp_cleanupSave"
    /\ UNCHANGED users
    /\ \/ Respond(p, 500, ServerError, "cleanup error")
       \/ Respond(p, 500, ServerError, "error")
    /\ UNCHANGED <<payments, bookings, intents, refundCalls, clock, nreq,
                   reviews, profiles>>

\* The token and the expiry set to undefined, then save(): each is written
\* when the loaded document had it set.
FpCleanupSave(p) ==
    /\ req[p].pc = "fp_cleanupSave"
    /\ \/ /\ UNCHANGED users
          /\ Respond(p, 500, ServerError, "cleanup error")
       \/ /\ users' = [users EXCEPT
                ![req[p].caller].resetPasswordToken =
                    IF req[p].user.resetPasswordToken # NoToken THEN NoToken ELSE @,
                ![req[p].caller].resetPasswordExpire =
                    IF req[p].user.resetPasswordExpire # NoExpire THEN NoExpire ELSE @]
          /\ Respond(p, 500, ServerError, "error")
    /\ UNCHANGED <<payments, bookings, intents, refundCalls, clock, nreq,
                   reviews, profiles>>

forgotPassword(p) ==
    \/ FpFind(p)
    \/ FpSave(p)
    \/ FpSendEmail(p)
    \/ FpCleanupFind(p)
    \/ FpCleanupSave(p)

\* POST /api/auth/reset-password/:resetToken: the new password must have at
\* least 8 characters.
StartResetPassword(p, t, pw) ==
    /\ Accept(p)
    /\ IF ~MinLength(pw)
       THEN Respond(p, 400, ValidationErrors, "none")
       ELSE req' = [req EXCEPT ![p] =
               [Idle EXCEPT !.op = "resetPassword", !.pc = "rp_find",
                            !.token = t, !.password = pw]]
    /\ UNCHANGED <<payments, bookings, intents, refundCalls, clock, accountVars>>

\* User.findOne with the token and an expiry in the future, then the check.
RpFind(p) ==
    /\ req[p].pc = "rp_find"
    /\ \/ Respond(p, 500, ServerError, "error")
       \/ /\ FindByResetToken(req[p].token) = {}
          /\ Respond(p, 400, InvalidOrExpired, "none")
       \/ \E a \in FindByResetToken(req[p].token) :
             req' = [req EXCEPT ![p].pc = "rp_save", ![p].caller = a]
    /\ UNCHANGED <<payments, bookings, intents, refundCalls, clock, nreq, accountVars>>

\* bcrypt.genSalt and bcrypt.hash, the token and the expiry set to undefined,
\* then user.save().
RpSave(p) ==
    /\ req[p].pc = "rp_save"
    /\ \/ /\ UNCHANGED users
          /\ Respond(p, 500, ServerError, "error")
       \/ /\ \E salt \in Salts :
                users' = [users EXCEPT
                    ![req[p].caller] = [password |-> Hash(req[p].password, salt),
                                        resetPasswordToken |-> NoToken,
                                        resetPasswordExpire |-> NoExpire]]
          /\ Respond(p, 200, PasswordUpdated, "none")
    /\ UNCHANGED <<payments, bookings, intents, refundCalls, clock, nreq,
                   reviews, profiles>>

resetPassword(p) ==
    \/ RpFind(p)
    \/ RpSave(p)

\* The tokens a reset request presents: those the run can issue.
TokenArgs == 1..2

AuthAdmit(p) == nreq < MaxAuthRequests

\* Forgot-password and reset-password requests, arriving at any time.
AuthNext ==
    \/ \E p \in Procs, e \in EmailArgs : AuthAdmit(p) /\ StartForgotPassword(p, e)
    \/ \E p \in Procs, t \in TokenArgs, pw \in PasswordArgs :
          AuthAdmit(p) /\ StartResetPassword(p, t, pw)
    \/ \E p \in Procs : forgotPassword(p)
    \/ \E p \in Procs : resetPassword(p)
    \/ Tick

AuthSpec == Init /\ [][AuthNext]_vars

\* The same requests, one after the other.
AuthSeqAdmit(p) ==
    /\ nreq < MaxAuthRequests
    /\ \A q \in Procs : ~Busy(q)
    /\ p = (nreq % MaxProcs) + 1

AuthSeqNext ==
    \/ \E p \in Procs, e \in EmailArgs : AuthSeqAdmit(p) /\ StartForgotPassword(p, e)
    \/ \E p \in Procs, t \in TokenArgs, pw \in PasswordArgs :
          AuthSeqAdmit(p) /\ StartResetPassword(p, t, pw)
    \/ \E p \in Procs : forgotPassword(p)
    \/ \E p \in Procs : resetPassword(p)
    \/ Tick

AuthSeqSpec == Init /\ [][AuthSeqNext]_vars

\* ------------------------------------------------- POST /api/trainers/:id/reviews
MaxReviewRequests == 3 \* review submissions the server receives in a run

UserType(a) == IF a \in Trainers THEN "trainer" ELSE "client"

\* The :id of the route: a trainer, a client, and an id of no user.
TrainerArgs == {"t1", "u1", "nobody"}

\* Ratings: two that pass the validation and one that does not.
RatingArgs == {2, 5, 6}

OnlyClients == "Only clients can leave reviews"
TrainerNotFound == "Trainer not found"

\* Review.find({ trainerId })
ReviewsOf(t) == SelectSeq(reviews, LAMBDA r : r.trainerId = t)

RECURSIVE SumRatings(_)
SumRatings(rs) == IF rs = <<>> THEN 0 ELSE Head(rs).rating + SumRatings(Tail(rs))

\* The profile the handler computes from the reviews it has read.
Stats(rs) == [rating |-> Quotient(SumRatings(rs), Len(rs)), reviewCount |-> Len(rs)]

\* trainer.save(): of profile.rating and profile.reviewCount, those whose
\* value differs from the loaded one are written.
SaveProfile(t, loaded, new) ==
    [profiles EXCEPT
        ![t].rating = IF new.rating # loaded.rating THEN new.rating ELSE @,
        ![t].reviewCount =
            IF new.reviewCount # loaded.reviewCount THEN new.reviewCount ELSE @]

\* The validation: rating must be an integer from 1 to 5.
StartReview(p, u, t, r) ==
    /\ Accept(p)
    /\ IF r \notin 1..5
       THEN Respond(p, 400, ValidationErrors, "none")
       ELSE req' = [req EXCEPT ![p] =
               [Idle EXCEPT !.op = "review", !.pc = "rv_findUser",
                            !.caller = u, !.text = t, !.arg = r]]
    /\ UNCHANGED <<payments, bookings, intents, refundCalls, clock, accountVars>>

\* User.findById(req.user.id) and the client check.
RvFindUser(p) ==
    /\ req[p].pc = "rv_findUser"
    /\ \/ Respond(p, 500, ServerError, "error")
       \/ /\ UserType(req[p].caller) # "client"
          /\ Respond(p, 403, OnlyClients, "none")
       \/ /\ UserType(req[p].caller) = "client"
          /\ Goto(p, "rv_findTrainer")
    /\ UNCHANGED <<payments, bookings, intents, refundCalls, clock, nreq, accountVars>>

\* User.findById(req.params.id) and the trainer check.
RvFindTrainer(p) ==
    /\ req[p].pc = "rv_findTrainer"
    /\ \/ Respond(p, 500, ServerError, "error")
       \/ /\ req[p].text \notin AccountIds \/ UserType(req[p].text) # "trainer"
          /\ Respond(p, 404, TrainerNotFound, "none")
       \/ /\ req[p].text \in AccountIds
          /\ UserType(req[p].text) = "trainer"
          /\ req' = [req EXCEPT ![p].pc = "rv_saveReview",
                                ![p].trainer = profiles[req[p].text]]
    /\ UNCHANGED <<payments, bookings, intents, refundCalls, clock, nreq, accountVars>>

\* newReview.save(): the unique index on (trainerId, clientId) refuses a
\* second review of the trainer by the client.
RvSaveReview(p) ==
    /\ req[p].pc = "rv_saveReview"
    /\ \/ /\ Respond(p, 500, ServerError, "error")
          /\ UNCHANGED reviews
       \/ /\ \A i \in DOMAIN reviews :
                ~(reviews[i].trainerId = req[p].text /\ reviews[i].clientId = req[p].caller)
          /\ reviews' = Append(reviews, [trainerId |-> req[p].text,
                                         clientId |-> req[p].caller,
                                         rating |-> req[p].arg])
          /\ Goto(p, "rv_findAll")
    /\ UNCHANGED <<payments, bookings, intents, refundCalls, clock, nreq,
                   users, profiles>>

\* Review.find({ trainerId }), then the average and the count are assigned.
RvFindAll(p) ==
    /\ req[p].pc = "rv_findAll"
    /\ \/ Respond(p, 500, ServerError, "error")
       \/ req' = [req EXCEPT ![p].pc = "rv_saveTrainer",
                             ![p].stats = Stats(ReviewsOf(req[p].text))]
    /\ UNCHANGED <<payments, bookings, intents, refundCalls, clock, nreq, accountVars>>

\* trainer.save(), then the review is returned.
RvSaveTrainer(p) ==
    /\ req[p].pc = "rv_saveTrainer"
    /\ \/ /\ Respond(p, 500, ServerError, "error")
          /\ UNCHANGED profiles
       \/ /\ profiles' = SaveProfile(req[p].text, req[p].trainer, req[p].stats)
          /\ Respond(p, 200, "ok", "none")
    /\ UNCHANGED <<payments, bookings, intents, refundCalls, clock, nreq,
                   users, reviews>>

submitReview(p) ==
    \/ RvFindUser(p)
    \/ RvFindTrainer(p)
    \/ RvSaveReview(p)
    \/ RvFindAll(p)
    \/ RvSaveTrainer(p)

ReviewAdmit(p) == nreq < MaxReviewRequests

\* Review submissions by the clients and by a trainer, arriving at any time.
ReviewNext ==
    \/ \E p \in Procs, u \in Users \cup {"t2"}, t \in TrainerArgs, r \in RatingArgs :
          ReviewAdmit(p) /\ StartReview(p, u, t, r)
    \/ \E p \in Procs : submitReview(p)

ReviewSpec == Init /\ [][ReviewNext]_vars

\* ====================================================================
\* Properties
\* ====================================================================

\* Slot p takes a step of its handler.
Steps(p) == Busy(p) /\ req'[p] # req[p]

\* The status changes the transition table allows.
AllowedTransitions ==
    {<<"pending", "completed">>, <<"pending", "failed">>, <<"completed", "refunded">>}

\* C1: a Payment's status changes only along pending->completed,
\* pending->failed and completed->refunded, whatever operation is applied.
C1_TransitionsFollowTable ==
    [][\A i \in PaymentIds :
          payments'[i].status # payments[i].status =>
              <<payments[i].status, payments'[i].status>> \in AllowedTransitions]_vars

CompletedFor(b) ==
    {i \in PaymentIds : payments[i].booking = b /\ payments[i].status = "completed"}

\* C2: each Booking has at most one Payment whose status is completed.
C2_AtMostOneCompleted ==
    \A b \in BookingIds : Cardinality(CompletedFor(b)) <= 1

\* Slot q holds a webhook event that was processed to its end without an
\* error, and slot p is processing a second delivery of the same event.
Redelivery(p, q) ==
    /\ p # q
    /\ req[q].op = "webhook" /\ req[q].pc = "done" /\ req[q].code = 200
    /\ req[q].log \in {"marked", "not found", "unhandled"}
    /\ req[p].op = "webhook" /\ Busy(p) /\ req[p].sigOk
    /\ req[p].etype = req[q].etype
    /\ req[p].arg = req[q].arg
    /\ req[p].text = req[q].text

\* C3: the second delivery of a webhook event, processed right after the
\* first, changes no Payment and no Booking.
C3_RedeliveryChangesNothing ==
    [][\A p, q \in Procs :
          Redelivery(p, q) /\ Steps(p) => UNCHANGED <<payments, bookings>>]_vars

\* Slot p runs a verified payment_intent.succeeded webhook.
IsSucceededWebhook(p) ==
    req[p].op = "webhook" /\ req[p].sigOk /\ req[p].etype = "payment_intent.succeeded"

\* Slots p and q hold a confirm call and a succeeded webhook for one intent.
ConfirmAndWebhook(p, q) ==
    /\ p # q
    /\ req[p].arg = req[q].arg
    /\ \/ req[p].op = "confirm" /\ IsSucceededWebhook(q)
       \/ IsSucceededWebhook(p) /\ req[q].op = "confirm"

\* Slot p has loaded a Payment that was completed already.
ObservedCompleted(p) == req[p].pid # 0 /\ req[p].doc.status = "completed"

\* C4: of a confirm and a succeeded webhook for the same Payment, the one that
\* finds the Payment completed already writes nothing to Payment or Booking.
C4_SecondArrivalWritesNothing ==
    [][\A p, q \in Procs :
          ConfirmAndWebhook(p, q) /\ ObservedCompleted(p) /\ Steps(p) =>
              UNCHANGED <<payments, bookings>>]_vars

\* Slot p has saved its Payment and is about to update the Booking.
AtBookingUpdate(p) ==
    req[p].pc \in {"cf_updateBooking", "rf_updateBooking", "wh_updateBooking"}

\* The save of slot p advanced the status of its Payment.
Advanced(p) == payments[req[p].pid].status # req[p].doc.status

\* The Booking paymentStatus that matches a Payment status.
Matching(status) == IF status = "completed" THEN "paid" ELSE status

\* C10: an operation that advanced a Payment's status never ends or moves on
\* with the Booking's paymentStatus not updated to match.
C10_AtomicInEffect ==
    [][\A p \in Procs :
          AtBookingUpdate(p) /\ Advanced(p) /\ Steps(p) =>
              bookings'[payments[req[p].pid].booking].paymentStatus =
                  Matching(payments[req[p].pid].status)]_vars

\* Slot p is past processRefund's status check.
PastRefundCheck(p) ==
    req[p].pc \in {"rf_stripeRefund", "rf_savePayment", "rf_updateBooking"}

\* C5: a refund whose Payment is pending, failed or refunded when processRefund
\* reads it fails there, issues no remote refund call and changes no Payment
\* and no Booking; a refund gets past the check only with a completed Payment.
C5_RefundNeedsCompleted ==
    /\ [][\A p \in Procs :
            (/\ req[p].pc = "rf_find"
             /\ Steps(p)
             /\ req[p].arg \in PaymentIds
             /\ payments[req[p].arg].status \in {"pending", "failed", "refunded"})
            => (/\ req'[p].pc = "done"
                /\ req'[p].code = 500
                /\ req'[p].msg \in {OnlyCompleted, StoreError}
                /\ UNCHANGED <<payments, bookings, refundCalls, intents>>)]_vars
    /\ [](\A p \in Procs : PastRefundCheck(p) => req[p].doc.status = "completed")
    /\ [][refundCalls' # refundCalls =>
            \E p \in Procs : req[p].pc = "rf_stripeRefund" /\ Steps(p)]_vars

\* A refund of a refunded Payment was rejected for its status.
C5_Witness ==
    \E p \in Procs :
        /\ req[p].op = "refund" /\ req[p].pc = "done"
        /\ req[p].code = 500 /\ req[p].msg = OnlyCompleted
        /\ payments[req[p].arg].status = "refunded"

\* C6: when the remote create-intent call fails, create-intent ends with the
\* failure and the Payment rows are as before; every Payment row carries the
\* id of an intent the gateway created, and only the save inserts a row.
C6_NoRowWithoutIntent ==
    /\ [][\A p \in Procs :
            (req[p].pc = "ci_stripeCreate" /\ Steps(p) /\ intents' = intents)
            => (/\ req'[p].pc = "done"
                /\ req'[p].code = 500
                /\ req'[p].msg = GatewayError
                /\ payments' = payments)]_vars
    /\ [](\A i \in PaymentIds : payments[i].transactionId \in IntentIds)
    /\ [][Len(payments') # Len(payments) =>
            \E p \in Procs : req[p].pc = "ci_save" /\ Steps(p)]_vars

\* A create-intent ended with the gateway's failure, after an earlier one
\* had inserted a row.
C6_Witness ==
    \E p \in Procs :
        /\ req[p].op = "createIntent" /\ req[p].pc = "done"
        /\ req[p].code = 500 /\ req[p].msg = GatewayError
        /\ Len(payments) = 1

\* Slot p runs create-intent and its next read finds a reason to reject.
CiRejects(p) ==
    \/ /\ req[p].pc = "ci_findBooking"
       /\ req[p].arg \notin DOMAIN bookings
    \/ /\ req[p].pc = "ci_findBooking"
       /\ req[p].arg \in DOMAIN bookings
       /\ bookings[req[p].arg].user # req[p].caller
    \/ /\ req[p].pc = "ci_findCompleted"
       /\ HasCompleted(req[p].arg)

\* The reason the rejection of slot p reports.
CiReason(p) ==
    IF req[p].pc = "ci_findCompleted" THEN AlreadyCompleted
    ELSE IF req[p].arg \notin DOMAIN bookings THEN BookingNotFound
    ELSE UnauthorizedBooking

\* C7: create-intent for a booking that does not exist, that the caller does
\* not own or that has a completed Payment ends with an error that names the
\* reason (or the failure of the read), the three reasons differ, and no
\* intent is created and no Payment row inserted.
C7_CreateIntentRejections ==
    [][\A p \in Procs :
          (CiRejects(p) /\ Steps(p))
          => (/\ req'[p].pc = "done"
              /\ req'[p].code = 500
              /\ req'[p].msg \in {CiReason(p), StoreError}
              /\ Cardinality({BookingNotFound, UnauthorizedBooking,
                              AlreadyCompleted}) = 3
              /\ UNCHANGED <<payments, bookings, intents>>)]_vars

\* A create-intent was rejected because the booking has a completed Payment.
C7_Witness ==
    \E p \in Procs :
        /\ req[p].op = "createIntent" /\ req[p].pc = "done"
        /\ req[p].code = 500 /\ req[p].msg = AlreadyCompleted

\* Slot p is past the webhook's signature verification.
PastVerify(p) == req[p].pc \in {"wh_find", "wh_save", "wh_updateBooking"}

\* C8: a webhook whose signature does not verify ends with a 400 and changes
\* nothing; only a verified webhook gets to read or write a record.
C8_VerifyFailsClosed ==
    /\ [][\A p \in Procs :
            (req[p].pc = "wh_verify" /\ ~req[p].sigOk /\ Steps(p))
            => (/\ req'[p].pc = "done"
                /\ req'[p].code = 400
                /\ UNCHANGED <<payments, bookings, intents, refundCalls>>)]_vars
    /\ [](\A p \in Procs : PastVerify(p) => req[p].sigOk)

\* A forged payment_intent.succeeded event for a pending Payment got a 400.
C8_Witness ==
    \E p \in Procs :
        /\ req[p].op = "webhook" /\ req[p].pc = "done" /\ req[p].code = 400
        /\ req[p].etype = "payment_intent.succeeded"
        /\ FindByTransaction(req[p].arg) # 0
        /\ payments[FindByTransaction(req[p].arg)].status = "pending"

\* The handlers run on: every awaited call returns or throws.
FairSpec == Spec /\ \A p \in Procs : WF_vars(stripeWebhookHandler(p))

\* Slot p runs a webhook whose signature verifies.
VerifiedWebhook(p) == req[p].op = "webhook" /\ Busy(p) /\ req[p].sigOk

\* C9: a webhook whose signature verifies ends with the 200 acknowledgment,
\* whatever its event and whatever the store does; a 400 answers only a
\* signature that does not verify.
C9_VerifiedIsAcknowledged ==
    /\ \A p \in Procs :
          VerifiedWebhook(p) ~> (req[p].pc = "done" /\ req[p].code = 200)
    /\ [][\A p \in Procs :
            (req[p].op = "webhook" /\ Steps(p) /\ req'[p].pc = "done")
            => (/\ req[p].sigOk => req'[p].code = 200 /\ req'[p].msg = Received
                /\ ~req[p].sigOk => req'[p].code = 400)]_vars

\* A verified webhook was acknowledged although the store threw.
C9_Witness ==
    \E p \in Procs :
        /\ req[p].op = "webhook" /\ req[p].pc = "done" /\ req[p].sigOk
        /\ req[p].code = 200 /\ req[p].log = "error"

\* Slot p ends a payment operation that wrote its Payment and met no error.
EndsPaymentEvent(p) ==
    /\ Steps(p)
    /\ req[p].pid # 0
    /\ req[p].pc \in {"cf_populate", "rf_updateBooking", "wh_save", "wh_updateBooking"}
    /\ req'[p].pc = "done"
    /\ req'[p].code = 200
    /\ req'[p].log \in {"none", "marked"}

\* C11: when a payment operation has ended, the Booking's paymentStatus is paid
\* exactly when the Payment that the operation updated is completed, and
\* refunded exactly when that Payment is refunded.
C11_BookingReflectsLastEvent ==
    [][\A p \in Procs :
          EndsPaymentEvent(p) =>
              LET pay == payments'[req[p].pid]
                  paymentStatus == bookings'[pay.booking].paymentStatus
              IN  /\ paymentStatus = "paid" <=> pay.status = "completed"
                  /\ paymentStatus = "refunded" <=> pay.status = "refunded"]_vars

\* Slot p runs one of the booking routes.
IsBookingOp(p) == req[p].op \in {"createBooking", "clientCancel", "trainerUpdate"}

\* C12: a step of a booking route (create booking, client cancel, trainer
\* accept or decline) leaves the paymentStatus of every existing Booking as
\* it was, and paymentStatus changes only in a step of a payment operation.
C12_BookingRoutesKeepPaymentStatus ==
    /\ [][\A p \in Procs :
            (IsBookingOp(p) /\ Steps(p)) =>
                \A b \in DOMAIN bookings :
                    bookings'[b].paymentStatus = bookings[b].paymentStatus]_vars
    /\ [][(\E b \in DOMAIN bookings :
                bookings'[b].paymentStatus # bookings[b].paymentStatus) =>
            \E p \in Procs :
                /\ Steps(p)
                /\ req[p].pc \in {"cf_updateBooking", "rf_updateBooking",
                                  "wh_updateBooking"}]_vars

\* The client cancelled a booking that a payment operation had marked paid
\* while the cancel was in flight.
C12_Witness ==
    \E p \in Procs :
        /\ req[p].op = "clientCancel" /\ req[p].pc = "done" /\ req[p].code = 200
        /\ bookings[req[p].arg].status = "cancelled"
        /\ bookings[req[p].arg].paymentStatus = "paid"

\* Every Payment other than i, and every field of i that a handler does not
\* assign, is as before.
OtherPaymentsKept(i) ==
    /\ Len(payments') = Len(payments)
    /\ \A j \in PaymentIds \ {i} : payments'[j] = payments[j]
    /\ [payments'[i] EXCEPT !.status = "x", !.receiptUrl = "x", !.notes = NoNote]
         = [payments[i] EXCEPT !.status = "x", !.receiptUrl = "x", !.notes = NoNote]

\* Every Booking other than b is as before, and so is b's owner.
OtherBookingsKept(b) ==
    /\ DOMAIN bookings' = DOMAIN bookings
    /\ \A c \in DOMAIN bookings \ {b} : bookings'[c] = bookings[c]
    /\ bookings'[b].user = bookings[b].user

RemoteNotSucceeded(p) ==
    /\ req[p].pc = "cf_retrieve"
    /\ req[p].arg \in IntentIds
    /\ intents[req[p].arg].status # "succeeded"

\* No Payment carries the transaction reference that slot p's confirm names.
NoLocalPayment(p) ==
    /\ req[p].pc = "cf_findPayment"
    /\ FindByTransaction(req[p].arg) = 0

\* C14: a confirm whose remote intent has not succeeded ends with an error
\* that reports the remote status, a confirm with no local Payment for the
\* transaction reference ends with the not-found error, and neither changes a
\* Payment or a Booking; confirm writes only after both checks have passed.
C14_ConfirmRejections ==
    /\ [][\A p \in Procs :
            /\ (RemoteNotSucceeded(p) /\ Steps(p)) =>
                  /\ req'[p].pc = "done" /\ req'[p].code = 500
                  /\ req'[p].msg \in {NotSuccessful, GatewayError}
                  /\ UNCHANGED <<payments, bookings>>
            /\ (NoLocalPayment(p) /\ Steps(p)) =>
                  /\ req'[p].pc = "done" /\ req'[p].code = 500
                  /\ req'[p].msg \in {PaymentRecordNotFound, StoreError}
                  /\ UNCHANGED <<payments, bookings>>
            /\ (req[p].op = "confirm" /\ Steps(p)
                    /\ req'[p].msg \in {NotSuccessful, PaymentRecordNotFound}) =>
                  /\ req[p].pid = 0
                  /\ UNCHANGED <<payments, bookings>>]_vars
    /\ [](NotSuccessful # PaymentRecordNotFound)

\* With a pending Payment in the store, one confirm was rejected for the
\* remote status and another for the missing Payment.
C14_Witness ==
    \E p, q \in Procs :
        /\ req[p].op = "confirm" /\ req[p].pc = "done" /\ req[p].msg = NotSuccessful
        /\ req[q].op = "confirm" /\ req[q].pc = "done"
        /\ req[q].msg = PaymentRecordNotFound
        /\ \E i \in PaymentIds : payments[i].status = "pending"

\* Slot p runs a verified webhook of type t that loaded a pending Payment.
OnPending(p, t) ==
    /\ req[p].op = "webhook" /\ req[p].sigOk /\ req[p].etype = t
    /\ req[p].pid # 0
    /\ req[p].doc.status = "pending"

\* C15: a verified payment_intent.succeeded webhook that found a pending
\* Payment for its intent saves it as completed, then sets the Booking's
\* paymentStatus to paid with the Booking's status as it was, and writes
\* nothing else.
C15_SucceededWebhookEffects ==
    [][\A p \in Procs :
          (OnPending(p, "payment_intent.succeeded") /\ Steps(p)) =>
            LET i == req[p].pid
                b == payments[i].booking
                toSave == req[p].pc = "wh_save" /\ req'[p].pc = "wh_updateBooking"
                toBooking == req[p].pc = "wh_updateBooking" /\ req'[p].log = "marked"
            IN
            /\ payments[i].transactionId = req[p].arg
            /\ toSave =>
                  /\ payments'[i].status = "completed"
                  /\ payments'[i].notes = payments[i].notes
                  /\ OtherPaymentsKept(i)
                  /\ bookings' = bookings
            /\ toBooking =>
                  /\ bookings'[b].paymentStatus = "paid"
                  /\ bookings'[b].status = bookings[b].status
                  /\ OtherBookingsKept(b)
                  /\ payments' = payments
            /\ ~toSave /\ ~toBooking => UNCHANGED <<payments, bookings>>]_vars

\* A succeeded webhook was processed to its end and the Booking is paid and
\* still pending.
C15_Witness ==
    \E p \in Procs :
        /\ IsSucceededWebhook(p) /\ req[p].pc = "done" /\ req[p].log = "marked"
        /\ payments[FindByTransaction(req[p].arg)].status = "completed"
        /\ bookings[1].paymentStatus = "paid"
        /\ bookings[1].status = "pending"

\* The notes the payment_failed case writes for failure message m.
FailureNote(m) == IF m = "none" THEN Note("Payment failed", 0) ELSE Note(m, 0)

\* C16: a verified payment_intent.payment_failed webhook that found a pending
\* Payment for its intent saves it as failed with notes equal to the event's
\* failure message, or to 'Payment failed' when it has none, writes no other
\* Payment, and no step of it changes a Booking.
C16_FailedWebhookEffects ==
    [][\A p \in Procs :
          (OnPending(p, "payment_intent.payment_failed") /\ Steps(p)) =>
            LET i == req[p].pid
                toSave == req[p].pc = "wh_save" /\ req'[p].log = "marked"
            IN
            /\ payments[i].transactionId = req[p].arg
            /\ toSave =>
                  /\ payments'[i].status = "failed"
                  /\ payments'[i].notes = FailureNote(req[p].text)
                  /\ payments'[i].receiptUrl = payments[i].receiptUrl
                  /\ OtherPaymentsKept(i)
            /\ ~toSave => payments' = payments
            /\ req'[p].pc = "done"
            /\ bookings' = bookings]_vars

\* A payment_failed webhook with a failure message was processed to its end:
\* the Payment is failed with that message and the Booking is unpaid.
C16_Witness ==
    \E p \in Procs :
        /\ req[p].op = "webhook" /\ req[p].etype = "payment_intent.payment_failed"
        /\ req[p].pc = "done" /\ req[p].log = "marked"
        /\ req[p].text = "Your card was declined."
        /\ payments[FindByTransaction(req[p].arg)].status = "failed"
        /\ payments[FindByTransaction(req[p].arg)].notes = Note(req[p].text, 0)
        /\ bookings[1].paymentStatus = "unpaid"

\* Slot p runs a verified webhook whose event type the switch does not handle.
UnhandledType(p) ==
    /\ req[p].pc = "wh_verify" /\ req[p].sigOk
    /\ req[p].etype \notin {"payment_intent.succeeded",
                             "payment_intent.payment_failed", "charge.refunded"}

\* Slot p runs a verified webhook of a handled type whose intent reference
\* matches no Payment.
Unmatched(p) ==
    /\ req[p].pc = "wh_find" /\ req[p].sigOk
    /\ FindByTransaction(req[p].arg) = 0

\* C17: a verified webhook of an unhandled type, and one of a handled type
\* whose intent reference matches no Payment, ends at that step with the 200
\* acknowledgment and changes no Payment and no Booking.
C17_UnhandledAndUnmatched ==
    [][\A p \in Procs :
          ((UnhandledType(p) \/ Unmatched(p)) /\ Steps(p)) =>
              /\ req'[p].pc = "done"
              /\ req'[p].code = 200
              /\ req'[p].msg = Received
              /\ UNCHANGED <<payments, bookings, intents, refundCalls>>]_vars

\* With a Payment in the store, a webhook of an unhandled type and one of a
\* handled type with no matching Payment were both acknowledged.
C17_Witness ==
    \E p, q \in Procs :
        /\ req[p].op = "webhook" /\ req[p].pc = "done" /\ req[p].code = 200
        /\ req[p].log = "unhandled" /\ req[p].etype = "customer.created"
        /\ req[q].op = "webhook" /\ req[q].pc = "done" /\ req[q].code = 200
        /\ req[q].log = "not found" /\ req[q].etype = "charge.refunded"
        /\ Len(payments) > 0

\* The notes processRefund writes for reason r.
RefundNote(r) == IF r = "none" THEN Note("Refund processed", 0) ELSE Note(r, 0)

\* C18: a refund requested by the Payment's owner on a completed Payment is
\* not rejected; it issues one remote refund call, against the Payment's
\* transaction reference and before any write; its save sets the Payment to
\* refunded with notes equal to the reason, or to 'Refund processed' when
\* there is none; its Booking update sets paymentStatus to refunded; it
\* returns the refund id, the payment id, the amount and status refunded; and
\* it writes nothing else.
C18_RefundEffects ==
    [][\A p \in Procs : (req[p].op = "refund" /\ Steps(p)) =>
        LET i == req[p].pid
            toSave == req[p].pc = "rf_savePayment" /\ req'[p].pc = "rf_updateBooking"
            toBooking == req[p].pc = "rf_updateBooking" /\ req'[p].code = 200
        IN
        /\ (req[p].pc = "rf_routeFind" /\ req[p].arg \in PaymentIds
                /\ payments[req[p].arg].user = req[p].caller)
            => (req'[p].pc = "rf_find" \/ req'[p].msg = StoreError)
        /\ (req[p].pc = "rf_find" /\ req[p].arg \in PaymentIds
                /\ payments[req[p].arg].status = "completed")
            => (req'[p].pc = "rf_stripeRefund" \/ req'[p].msg = StoreError)
        /\ IF req[p].pc = "rf_stripeRefund"
           THEN /\ refundCalls' =
                      [refundCalls EXCEPT ![payments[i].transactionId] = @ + 1]
                /\ payments[i].status = "completed"
                /\ req'[p].pc = "rf_savePayment" => req'[p].iid # 0
           ELSE refundCalls' = refundCalls
        /\ toSave =>
              /\ payments'[i].status = "refunded"
              /\ payments'[i].notes = RefundNote(req[p].text)
              /\ payments'[i].receiptUrl = payments[i].receiptUrl
              /\ OtherPaymentsKept(i)
              /\ bookings' = bookings
        /\ toBooking =>
              /\ bookings'[payments[i].booking].paymentStatus = "refunded"
              /\ bookings'[payments[i].booking].status
                    = bookings[payments[i].booking].status
              /\ OtherBookingsKept(payments[i].booking)
              /\ payments' = payments
              /\ payments[i].status = "refunded"
              /\ req'[p].result = [refundId |-> req[p].iid, paymentId |-> req[p].arg,
                                   amount |-> payments[i].amount,
                                   status |-> "refunded"]
        /\ ~toSave /\ ~toBooking => UNCHANGED <<payments, bookings>>]_vars

\* A refund with reason 'customer request' returned: the Payment is refunded
\* with that note, the Booking refunded, one remote refund call was issued and
\* the result carries its id.
C18_Witness ==
    \E p \in Procs :
        /\ req[p].op = "refund" /\ req[p].pc = "done" /\ req[p].code = 200
        /\ req[p].result.refundId = 1 /\ req[p].result.status = "refunded"
        /\ payments[req[p].arg].status = "refunded"
        /\ payments[req[p].arg].notes = Note("customer request", 0)
        /\ bookings[1].paymentStatus = "refunded"
        /\ refundCalls[payments[req[p].arg].transactionId] = 1

\* Slot p's remote refund call fails in this step: no refund is created.
RemoteRefundFails(p) ==
    /\ req[p].pc = "rf_stripeRefund"
    /\ Steps(p)
    /\ intents' = intents

\* C19: when the remote refund call fails, the refund ends with that failure
\* and the Payments and Bookings are as they were; a refund gets to its
\* writes only with a refund the gateway created.
C19_RefundFailurePropagates ==
    /\ [][\A p \in Procs :
            RemoteRefundFails(p) =>
                /\ req'[p].pc = "done"
                /\ req'[p].code = 500
                /\ req'[p].msg = GatewayError
                /\ UNCHANGED <<payments, bookings>>]_vars
    /\ [](\A p \in Procs :
            req[p].pc \in {"rf_savePayment", "rf_updateBooking"} =>
                /\ req[p].iid # 0
                /\ intents[payments[req[p].pid].transactionId].refunded)

\* A refund ended with the gateway's failure: the Payment is still completed
\* and the Booking still paid.
C19_Witness ==
    \E p \in Procs :
        /\ req[p].op = "refund" /\ req[p].pc = "done"
        /\ req[p].code = 500 /\ req[p].msg = GatewayError
        /\ payments[req[p].arg].status = "completed"
        /\ bookings[payments[req[p].arg].booking].paymentStatus = "paid"

\* The refund of slot p names a Payment that does not exist.
RefundOfMissing(p) ==
    req[p].pc = "rf_routeFind" /\ req[p].arg \notin PaymentIds

\* The refund of slot p names a Payment of another user.
RefundByOther(p) ==
    /\ req[p].pc = "rf_routeFind"
    /\ req[p].arg \in PaymentIds
    /\ payments[req[p].arg].user # req[p].caller

\* C20: a refund of a Payment that does not exist ends with 404 'Payment not
\* found', a refund by a caller who is not the Payment's user with 401 'Not
\* authorized to process this refund' (or either with the failure of the
\* read); both differ from the wrong-status rejection, and neither issues a
\* remote refund call or changes a Payment or a Booking.  processRefund runs
\* only for the Payment's user.
C20_RefundRejections ==
    /\ [][\A p \in Procs :
            /\ (RefundOfMissing(p) /\ Steps(p)) =>
                  /\ req'[p].pc = "done"
                  /\ \/ req'[p].code = 404 /\ req'[p].msg = PaymentNotFound
                     \/ req'[p].code = 500 /\ req'[p].msg = StoreError
                  /\ UNCHANGED <<payments, bookings, refundCalls, intents>>
            /\ (RefundByOther(p) /\ Steps(p)) =>
                  /\ req'[p].pc = "done"
                  /\ \/ req'[p].code = 401 /\ req'[p].msg = NotAuthorizedRefund
                     \/ req'[p].code = 500 /\ req'[p].msg = StoreError
                  /\ UNCHANGED <<payments, bookings, refundCalls, intents>>]_vars
    /\ [](/\ Cardinality({PaymentNotFound, NotAuthorizedRefund, OnlyCompleted}) = 3
          /\ \A p \in Procs :
                req[p].pc \in {"rf_find", "rf_stripeRefund", "rf_savePayment",
                               "rf_updateBooking"} =>
                    /\ req[p].arg \in PaymentIds
                    /\ payments[req[p].arg].user = req[p].caller)

\* With one Payment in the store, a refund of it by another user was answered
\* 401 and a refund of a Payment that does not exist 404.
C20_Witness ==
    \E p, q \in Procs :
        /\ req[p].op = "refund" /\ req[p].pc = "done"
        /\ req[p].code = 401 /\ req[p].msg = NotAuthorizedRefund
        /\ req[q].op = "refund" /\ req[q].pc = "done"
        /\ req[q].code = 404 /\ req[q].msg = PaymentNotFound
        /\ Len(payments) = 1
        /\ TotalRefundCalls = 0

\* Slot p's create-intent returns in this step.
CreateIntentReturns(p) ==
    /\ req[p].op = "createIntent"
    /\ Steps(p)
    /\ req'[p].pc = "done"
    /\ req'[p].code = 200

\* C21: a create-intent that returns was called by the booking's owner and
\* has inserted one Payment, in its last step and nowhere else: the row is
\* pending, its amount is the booking's class price, and its transaction
\* reference is the id of the intent this call created, whose amount is an
\* integer nearest to the price times 100.
C21_CreateIntentInsertsOne ==
    [][\A p \in Procs : (req[p].op = "createIntent" /\ Steps(p)) =>
          IF CreateIntentReturns(p)
          THEN LET n == Len(payments) + 1
                   price == PriceOf(req[p].arg)
                   sent == intents[req[p].iid].amount
               IN  /\ bookings[req[p].arg].user = req[p].caller
                   /\ payments' = Append(payments, payments'[n])
                   /\ payments'[n].status = "pending"
                   /\ payments'[n].amount = price
                   /\ payments'[n].booking = req[p].arg
                   /\ payments'[n].user = req[p].caller
                   /\ payments'[n].transactionId = req[p].iid
                   /\ req[p].iid \in IntentIds
                   /\ \A j \in PaymentIds : payments[j].transactionId # req[p].iid
                   /\ 10 * sent - price \in -5..5
                   /\ bookings' = bookings
          ELSE /\ payments' = payments
               /\ bookings' = bookings
               /\ req[p].pc = "ci_stripeCreate" /\ req'[p].pc = "ci_save" =>
                     /\ Len(intents') = Len(intents) + 1
                     /\ req'[p].iid = Len(intents')]_vars

\* Two create-intents returned for a class priced 49.996: two pending rows of
\* that amount, each with its own intent of 5000 minor units.
C21_Witness ==
    /\ Len(payments) = 2
    /\ \A i \in PaymentIds :
          /\ payments[i].status = "pending"
          /\ payments[i].amount = 49996
          /\ intents[payments[i].transactionId].amount = 5000
    /\ payments[1].transactionId # payments[2].transactionId
    /\ \E p \in Procs : req[p].op = "createIntent" /\ req[p].code = 200

\* The fields of a Payment that are set when it is created.
Identity(pay) ==
    [user |-> pay.user, booking |-> pay.booking, amount |-> pay.amount,
     transactionId |-> pay.transactionId, paymentMethod |-> pay.paymentMethod]

\* C22: in every step the Payment rows that exist stay, with their user,
\* booking, amount and transaction reference as they were; a step adds at most
\* one row, the row it adds is pending, and the step is the save of a
\* create-intent.
C22_PaymentsOnlyGrow ==
    [][/\ Len(payments') >= Len(payments)
       /\ \A i \in PaymentIds : Identity(payments'[i]) = Identity(payments[i])
       /\ Len(payments') # Len(payments) =>
             /\ Len(payments') = Len(payments) + 1
             /\ payments'[Len(payments')].status = "pending"
             /\ \E p \in Procs :
                   /\ req[p].op = "createIntent" /\ req[p].pc = "ci_save"
                   /\ Steps(p)]_vars

\* Two Payments exist, the first of them refunded and the second pending.
C22_Witness ==
    /\ Len(payments) = 2
    /\ payments[1].status = "refunded"
    /\ payments[2].status = "pending"
    /\ payments[1].transactionId # payments[2].transactionId

\* C23: each check is right about what it reads, and nothing ties the read
\* to the write.  A refund passes its check only when it reads the Payment as
\* completed, and a create-intent only when it reads no completed Payment of
\* the booking; every remote refund call is issued by a refund that read
\* completed.  Two overlapping requests can both pass (C23_Witness).
C23_ChecksReadStaleStatus ==
    /\ [][\A p \in Procs :
            /\ (req[p].pc = "rf_find" /\ req'[p].pc = "rf_stripeRefund") =>
                  payments[req[p].arg].status = "completed"
            /\ (req[p].pc = "ci_findCompleted" /\ req'[p].pc = "ci_stripeCreate") =>
                  ~HasCompleted(req[p].arg)]_vars
    /\ [][\A t \in IntentArgs :
            refundCalls'[t] # refundCalls[t] =>
                /\ refundCalls'[t] = refundCalls[t] + 1
                /\ \E p \in Procs :
                      /\ req[p].pc = "rf_stripeRefund" /\ Steps(p)
                      /\ req[p].doc.status = "completed"
                      /\ payments[req[p].pid].transactionId = t]_vars

\* Two create-intents for booking 1 overlapped: each created its intent
\* before the other saved its row, so the rows are in the other order.  Two
\* refunds of one completed Payment overlapped: both passed the status check
\* and two remote refund calls were issued before either refund wrote.
C23_Witness ==
    /\ Len(payments) = 2
    /\ payments[1].booking = payments[2].booking
    /\ payments[1].transactionId = 2
    /\ payments[2].transactionId = 1
    /\ \E p, q \in Procs :
          /\ p # q
          /\ req[p].op = "refund" /\ req[p].pc = "rf_savePayment"
          /\ req[q].op = "refund" /\ req[q].pc = "done" /\ req[q].msg = GatewayError
          /\ req[q].arg = req[p].arg
          /\ payments[req[p].arg].status = "completed"
          /\ refundCalls[payments[req[p].arg].transactionId] = 2

\* --------------------------------------------------------------------
\* C24: forgot-password, when a step up to the sending of the email fails,
\* runs the cleanup and answers 500 'Server error'.  A step that fails changes
\* no account and leads to the cleanup; the cleanup only ends with that
\* response; a cleanup that fails is logged and gives the same response
\* without a write; a cleanup that succeeds clears the token and the expiry
\* the document had when it was loaded, so that the account has neither when
\* nobody stored another since.
InCleanup(p) == req[p].pc \in {"fp_cleanupFind", "fp_cleanupSave"}

ServerErrorSent(p) ==
    /\ req'[p].pc = "done"
    /\ req'[p].code = 500
    /\ req'[p].msg = ServerError

C24_FailureClearsToken ==
    [][\A p \in Procs :
        (req[p].op = "forgotPassword" /\ req'[p] # req[p]) =>
            /\ req[p].pc \in {"fp_find", "fp_save", "fp_sendEmail"} =>
                  \/ req'[p].pc = "fp_cleanupFind" /\ users' = users
                  \/ req[p].pc = "fp_find" /\ req'[p].pc = "fp_save" /\ users' = users
                  \/ /\ req[p].pc = "fp_find"
                     /\ req'[p].pc = "done"
                     /\ req'[p].code = 404
                     /\ users' = users
                  \/ /\ req[p].pc = "fp_save"
                     /\ req'[p].pc = "fp_sendEmail"
                     /\ users'[req[p].caller].resetPasswordToken = req[p].token
                  \/ /\ req[p].pc = "fp_sendEmail"
                     /\ req'[p].pc = "done"
                     /\ req'[p].code = 200
                     /\ users' = users
            /\ InCleanup(p) =>
                  \/ /\ req[p].pc = "fp_cleanupFind"
                     /\ req'[p].pc = "fp_cleanupSave"
                     /\ users' = users
                  \/ /\ ServerErrorSent(p)
                     /\ req'[p].log = "cleanup error"
                     /\ users' = users
                  \/ /\ ServerErrorSent(p)
                     /\ req'[p].log = "error"
                     /\ req[p].pc = "fp_cleanupFind"
                     /\ req[p].caller \notin AccountIds
                     /\ users' = users
                  \/ /\ ServerErrorSent(p)
                     /\ req'[p].log = "error"
                     /\ req[p].pc = "fp_cleanupSave"
                     /\ \A a \in AccountIds \ {req[p].caller} : users'[a] = users[a]
                     /\ users'[req[p].caller].password = users[req[p].caller].password
                     /\ req[p].user.resetPasswordToken # NoToken =>
                           users'[req[p].caller].resetPasswordToken = NoToken
                     /\ req[p].user.resetPasswordExpire # NoExpire =>
                           users'[req[p].caller].resetPasswordExpire = NoExpire
                     /\ (/\ users[req[p].caller].resetPasswordToken =
                                req[p].user.resetPasswordToken
                         /\ users[req[p].caller].resetPasswordExpire =
                                req[p].user.resetPasswordExpire) =>
                           /\ users'[req[p].caller].resetPasswordToken = NoToken
                           /\ users'[req[p].caller].resetPasswordExpire = NoExpire
    ]_vars

\* The email of a forgot-password request could not be sent: the handler has
\* answered 500 and the token it had stored is gone from the account.
C24_Witness ==
    \E p \in Procs :
        /\ req[p].op = "forgotPassword"
        /\ req[p].pc = "done"
        /\ req[p].code = 500
        /\ req[p].msg = ServerError
        /\ req[p].log = "error"
        /\ req[p].token # NoToken
        /\ req[p].user.resetPasswordToken = req[p].token
        /\ users["u1"].resetPasswordToken = NoToken
        /\ users["u1"].resetPasswordExpire = NoExpire

\* --------------------------------------------------------------------
\* C25: when the operations do not overlap, no remote refund call is issued
\* for a Payment once it is refunded.  A Payment that this server has refunded
\* carries the note of the refund; from then on no step issues a refund call
\* for its intent.
HasRefundNote(i) == \E r \in Reasons : payments[i].notes = RefundNote(r)

C25_NoRefundCallOnceRefunded ==
    [][\A i \in PaymentIds :
          HasRefundNote(i)
          => refundCalls'[payments[i].transactionId]
                 = refundCalls[payments[i].transactionId]]_vars

\* --------------------------------------------------------------------
\* C26: only a completed Payment of the booking stops a create-intent by the
\* booking's owner.  Past the ownership check, a create-intent that reads no
\* completed Payment goes on to the gateway unless the read itself fails,
\* whatever other Payments the booking has; when it ends with success it has
\* added a pending Payment for the intent it created; and no two Payments
\* share an intent.
C26_OnlyCompletedBlocks ==
    /\ [][\A p \in Procs :
            (req[p].pc = "ci_findCompleted" /\ ~HasCompleted(req[p].arg) /\ Steps(p))
            => \/ req'[p].pc = "ci_stripeCreate"
               \/ req'[p].pc = "done" /\ req'[p].msg = StoreError]_vars
    /\ [][\A p \in Procs :
            (req[p].pc = "ci_save" /\ req'[p].pc = "done" /\ req'[p].code = 200)
            => /\ Len(payments') = Len(payments) + 1
               /\ payments'[Len(payments')].status = "pending"
               /\ payments'[Len(payments')].booking = req[p].arg
               /\ payments'[Len(payments')].transactionId = req[p].iid
               /\ \A i \in PaymentIds :
                     /\ payments'[i] = payments[i]
                     /\ payments[i].transactionId # req[p].iid]_vars
    /\ [](\A i, j \in PaymentIds :
            i # j => payments[i].transactionId # payments[j].transactionId)

\* A create-intent for booking 1 has succeeded although the booking had a
\* failed Payment: the booking has the failed Payment and a new pending one.
C26_Witness ==
    \E p \in Procs :
        /\ req[p].op = "createIntent" /\ req[p].pc = "done" /\ req[p].code = 200
        /\ req[p].arg = 1
        /\ Len(payments) = 2
        /\ payments[1].booking = 1 /\ payments[1].status = "failed"
        /\ payments[2].booking = 1 /\ payments[2].status = "pending"

\* --------------------------------------------------------------------
\* C27: a Booking whose status is cancelled keeps that status, whatever the
\* booking routes and the payment routes do and however they interleave.
C27_CancelledStaysCancelled ==
    [][\A b \in DOMAIN bookings :
          bookings[b].status = "cancelled" => bookings'[b].status = "cancelled"]_vars

\* The same, for the steps of the payment routes and the webhook alone.
CancelledKeptByPayments ==
    [][(\E p \in Procs : req[p].op \in {"createIntent", "confirm", "refund", "webhook"}
                         /\ Steps(p))
       => \A b \in DOMAIN bookings :
             bookings[b].status = "cancelled" => bookings'[b].status = "cancelled"]_vars

\* --------------------------------------------------------------------
\* C28: what a confirm does is fixed by the stores, the gateway and the intent
\* id it names, not by its caller.  Every step of a confirm, seen without the
\* caller, is one of the outcomes computed from the handler's state without
\* the caller: the Payment's owner and any other user get the same responses
\* and cause the same writes to the Payment and the Booking.
Forget(r) == [r EXCEPT !.caller = "none"]

\* The slot of a handler that has answered.
Answered(r, code, msg, log) ==
    [Idle EXCEPT !.op = r.op, !.pc = "done", !.arg = r.arg,
                 !.code = code, !.msg = msg, !.log = log]

Outcome(r, pays, bks) == [slot |-> r, payments |-> pays, bookings |-> bks]

Thrown(r, msg) == Outcome(Answered(r, 500, msg, "error"), payments, bookings)

\* The outcomes of one step of a confirm whose slot, without its caller, is r.
ConfirmOutcomes(r) ==
    CASE r.pc = "cf_retrieve" ->
            {Thrown(r, GatewayError)} \cup
            (IF r.arg \in IntentIds
             THEN IF intents[r.arg].status # "succeeded"
                  THEN {Thrown(r, NotSuccessful)}
                  ELSE {Outcome([r EXCEPT !.pc = "cf_findPayment",
                                          !.receipt = intents[r.arg].receipt],
                                payments, bookings)}
             ELSE {Thrown(r, NotSuccessful),
                   Outcome([r EXCEPT !.pc = "cf_findPayment", !.receipt = "null"],
                           payments, bookings)})
      [] r.pc = "cf_findPayment" ->
            {Thrown(r, StoreError)} \cup
            (IF FindByTransaction(r.arg) = 0
             THEN {Thrown(r, PaymentRecordNotFound)}
             ELSE {Outcome([r EXCEPT !.pc = "cf_savePayment",
                                     !.pid = FindByTransaction(r.arg),
                                     !.doc = Loaded(FindByTransaction(r.arg))],
                           payments, bookings)})
      [] r.pc = "cf_savePayment" ->
            {Thrown(r, StoreError),
             Outcome([r EXCEPT !.pc = "cf_updateBooking"],
                     SaveDoc(r.pid, r.doc,
                             [r.doc EXCEPT !.status = "completed",
                                           !.receiptUrl = r.receipt]),
                     bookings)}
      [] r.pc = "cf_updateBooking" ->
            {Thrown(r, StoreError),
             Outcome([r EXCEPT !.pc = "cf_populate"], payments,
                     [bookings EXCEPT ![payments[r.pid].booking] =
                         [@ EXCEPT !.paymentStatus = "paid",
                                   !.status = "confirmed"]])}
      [] r.pc = "cf_populate" ->
            {Thrown(r, StoreError),
             Outcome(Answered(r, 200, "ok", "none"), payments, bookings)}

C28_ConfirmIgnoresCaller ==
    [][\A p \in Procs :
          (req[p].op = "confirm" /\ Steps(p))
          => Outcome(Forget(req'[p]), payments', bookings')
                 \in ConfirmOutcomes(Forget(req[p]))]_vars

\* A confirm sent by a user who does not own the Payment has completed it and
\* marked its Booking paid and confirmed.
C28_Witness ==
    \E p \in Procs :
        /\ req[p].op = "confirm"
        /\ req[p].pc = "cf_populate"
        /\ req[p].caller # payments[req[p].pid].user
        /\ payments[req[p].pid].status = "completed"
        /\ bookings[payments[req[p].pid].booking].paymentStatus = "paid"
        /\ bookings[payments[req[p].pid].booking].status = "confirmed"

\* --------------------------------------------------------------------
\* C29: once every review submission has finished, each trainer's stored
\* reviewCount is the number of the trainer's Review records and the stored
\* rating is their mean.
ProfileAgrees(t) ==
    /\ profiles[t].reviewCount = Len(ReviewsOf(t))
    /\ ReviewsOf(t) # <<>> => profiles[t].rating = Stats(ReviewsOf(t)).rating

C29_ProfileMatchesReviews ==
    (\A p \in Procs : ~Busy(p)) => \A t \in Trainers : ProfileAgrees(t)

\* The same in the runs where no call of a submission has failed: as many
\* requests as there are slots have arrived, and each slot has answered 200.
ProfileMatchesWithoutFailure ==
    (/\ nreq = MaxProcs
     /\ \A p \in Procs : req[p].pc = "done" /\ req[p].code = 200)
    => \A t \in Trainers : ProfileAgrees(t)

\* --------------------------------------------------------------------
\* C30: a reset token is used at most once: no two reset-password requests
\* that presented the same token have both been answered with success.
C30_TokenUsedOnce ==
    \A p, q \in Procs :
        (/\ p # q
         /\ req[p].op = "resetPassword" /\ req[p].pc = "done" /\ req[p].code = 200
         /\ req[q].op = "resetPassword" /\ req[q].pc = "done" /\ req[q].code = 200)
        => req[p].token # req[q].token

\* With the requests one after the other: a reset gets past its read only
\* with the stored token of an account before its expiry; one that succeeds
\* presented the stored token, clears it with the expiry and sets the new
\* password; one that is rejected leaves every account as it is.
ResetInSequence ==
    [][\A p \in Procs :
          (req[p].op = "resetPassword" /\ Steps(p)) =>
              /\ req'[p].pc = "rp_save" =>
                    /\ users[req'[p].caller].resetPasswordToken = req[p].token
                    /\ users[req'[p].caller].resetPasswordExpire > clock
                    /\ users' = users
              /\ (req'[p].pc = "done" /\ req'[p].code = 200) =>
                    /\ req[p].pc = "rp_save"
                    /\ users[req[p].caller].resetPasswordToken = req[p].token
                    /\ users'[req[p].caller].resetPasswordToken = NoToken
                    /\ users'[req[p].caller].resetPasswordExpire = NoExpire
                    /\ users'[req[p].caller].password.of = req[p].password
              /\ (req'[p].pc = "done" /\ req'[p].code # 200) => users' = users]_vars

====
